---- MODULE Spec2Model ----
(***************************************************************************)
(* A model of hwpxlib's read / modify / write path:                        *)
(*   reader.py            HWPXReader.read and its helpers                  *)
(*   text_modifier.py     modify_hwpx_text, _save_modified_hwpx            *)
(*   writer.py            HwpxWriter.write, save_modified_hwpx             *)
(*   compatible_writer.py CompatibleHwpxWriter.write,                      *)
(*                        save_modified_hwpx_compatible                    *)
(*   hwpxlib/archive.py   HwpxArchive.read, HwpxArchive.write              *)
(*   blank_file_maker.py  make_blank                                       *)
(*                                                                         *)
(* An archive is a sequence of entries [name, data, ctype].  The bytes of  *)
(* an entry are a record [t, form, tree, toks]:                            *)
(*   t = "xml"  well-formed XML text; form is its lexical presentation     *)
(*              ("src": as authored, "et": as ElementTree.tostring writes  *)
(*              it) and tree is what ElementTree parses out of it;         *)
(*   t = "bad"  text that is not well-formed XML;                          *)
(*   t = "bin"  a binary blob, identified by form;                         *)
(*   t = "text" plain text, a sequence of tokens (toks).                   *)
(* Python dicts are modelled as sequences of <<key, value>> pairs, which   *)
(* keeps their insertion order.                                            *)
(***************************************************************************)
EXTENDS Naturals, Integers, Sequences, FiniteSets, TLC

VARIABLES archive, hwpx, out, err, op, ret, nsmap, log

vars == <<archive, hwpx, out, err, op, ret, nsmap, log>>

(***************************************************************************)
(* Bounds of the model.                                                    *)
(***************************************************************************)
\* number of text-bearing elements in the body part of the sample documents
MaxElems == 2

(***************************************************************************)
(* Fixed names and strings of the format.                                  *)
(***************************************************************************)
MIMETYPE == <<"application/hwp+zip">>

DEFAULT_WRITER_MIMETYPE == <<"application/haansofthwp">>

WS == {" ", "\n"}

N_MIME == "mimetype"
N_VERSION == "version.xml"
N_CONTAINER == "META-INF/container.xml"
N_MANIFEST == "META-INF/manifest.xml"
N_HPF == "Contents/content.hpf"
N_SEC0 == "Contents/section0.xml"
N_HEADER == "Contents/header.xml"
N_IMAGE == "BinData/image1.png"
N_EXTRA == "Scripts/extra.bin"
N_PREVIEW == "Preview/PrvText.txt"
N_CHART == "Chart/chart1.xml"
\* paths that are referenced and are in no archive
N_NO_PREVIEW == "Preview/PrvImage.png"
N_NO_CHART == "Chart/chart2.xml"
N_NO_IMAGE == "BinData/image2.png"

CoreNames == <<N_VERSION, N_CONTAINER, N_MANIFEST, N_HPF>>

CoreSet == {N_VERSION, N_CONTAINER, N_MANIFEST, N_HPF}

\* namespace URIs of the format
NS_HP == "http://www.hancom.co.kr/hwpml/2011/paragraph"
NS_HS == "http://www.hancom.co.kr/hwpml/2011/section"
NS_HH == "http://www.hancom.co.kr/hwpml/2011/head"
NS_HV == "http://www.hancom.co.kr/hwpml/2011/version"
NS_OCF == "urn:oasis:names:tc:opendocument:xmlns:container"
NS_ODF == "urn:oasis:names:tc:opendocument:xmlns:manifest:1.0"
NS_OPF_SLASH == "http://www.idpf.org/2007/opf/"
NS_OPF_NOSLASH == "http://www.idpf.org/2007/opf"
\* namespace URIs that are not of the format
NS_CUSTOM == "urn:example:custom"
NS_OTHER == "urn:example:other"

\* _register_hwpx_namespaces: the 18 (prefix, uri) pairs, in call order
HWPX_NAMESPACES ==
    << <<"ha", "http://www.hancom.co.kr/hwpml/2011/app">>,
       <<"hp", NS_HP>>,
       <<"hp10", "http://www.hancom.co.kr/hwpml/2016/paragraph">>,
       <<"hs", NS_HS>>,
       <<"hc", "http://www.hancom.co.kr/hwpml/2011/core">>,
       <<"hh", NS_HH>>,
       <<"hhs", "http://www.hancom.co.kr/hwpml/2011/history">>,
       <<"hm", "http://www.hancom.co.kr/hwpml/2011/master-page">>,
       <<"hpf", "http://www.hancom.co.kr/schema/2011/hpf">>,
       <<"hv", NS_HV>>,
       <<"hwpunitchar", "http://www.hancom.co.kr/hwpml/2016/HwpUnitChar">>,
       <<"ooxmlchart", "http://www.hancom.co.kr/hwpml/2016/ooxmlchart">>,
       <<"dc", "http://purl.org/dc/elements/1.1/">>,
       <<"config", "urn:oasis:names:tc:opendocument:xmlns:config:1.0">>,
       <<"epub", "http://www.idpf.org/2007/ops">>,
       <<"opf", NS_OPF_SLASH>>,
       <<"ocf", NS_OCF>>,
       <<"odf", NS_ODF>> >>

XML_MEDIA == "application/xml"
PACKAGE_MEDIA == "application/hwpml-package+xml"

(***************************************************************************)
(* Sequence and dict helpers.                                              *)
(***************************************************************************)
Range(s) == {s[i] : i \in 1..Len(s)}

Keys(d) == {d[i][1] : i \in 1..Len(d)}

KeySeq(d) == [i \in 1..Len(d) |-> d[i][1]]

HasKey(d, k) == \E i \in 1..Len(d) : d[i][1] = k

\* d[k] of a dict (the key is present)
Get(d, k) == d[CHOOSE i \in 1..Len(d) : d[i][1] = k][2]

\* d[k] = v : replaces the value in place, or appends a new key
Put(d, k, v) ==
    IF HasKey(d, k)
    THEN [i \in 1..Len(d) |-> IF d[i][1] = k THEN <<k, v>> ELSE d[i]]
    ELSE Append(d, <<k, v>>)

\* d.pop(k, default) : the dict without k
Pop(d, k) == SelectSeq(d, LAMBDA p : p[1] # k)

(***************************************************************************)
(* XML trees.  A tree is a record; tag = "None" stands for Python's None.  *)
(*   els   the elements in document (pre-order) order, each with the       *)
(*         namespace URI and the local name of its tag, the prefix it is   *)
(*         written with (in the text of a document; "" in a parsed tree,   *)
(*         where ElementTree keeps "{uri}name" only), its body text, its   *)
(*         tail text (sequences of characters, <<>> for an empty or absent *)
(*         string) and its chartIDRef attribute ("" when absent)           *)
(*   items the <item href media-type> children of <manifest>               *)
(*   roots the <rootfile full-path media-type> elements                    *)
(*   opf   the namespace the item elements are in                          *)
(***************************************************************************)
None == [tag |-> "None", els |-> <<>>, items |-> <<>>, roots |-> <<>>, opf |-> ""]

Tree(els, items, roots, opf) ==
    [tag |-> "tree", els |-> els, items |-> items, roots |-> roots, opf |-> opf]

Node(prefix, ns, name, text, tail, chart) ==
    [prefix |-> prefix, ns |-> ns, name |-> name, text |-> text, tail |-> tail,
     chart |-> chart]

\* an <hp:t> element
El(text, tail) == Node("hp", NS_HP, "t", text, tail, "")

(***************************************************************************)
(* Entry bytes.                                                            *)
(***************************************************************************)
Xml(form, tree) == [t |-> "xml", form |-> form, tree |-> tree, toks |-> <<>>]

Bad == [t |-> "bad", form |-> "", tree |-> None, toks |-> <<>>]

Bin(id) == [t |-> "bin", form |-> id, tree |-> None, toks |-> <<>>]

Text(toks) == [t |-> "text", form |-> "", tree |-> None, toks |-> toks]

Entry(name, data, ctype) == [name |-> name, data |-> data, ctype |-> ctype]

Names(entries) == [i \in 1..Len(entries) |-> entries[i].name]

HasEntry(entries, n) == \E i \in 1..Len(entries) : entries[i].name = n

\* the entry zipfile finds under a name: the last one of that name
EntryOf(entries, n) ==
    entries[CHOOSE i \in 1..Len(entries) :
                /\ entries[i].name = n
                /\ \A j \in (i + 1)..Len(entries) : entries[j].name # n]

(***************************************************************************)
(* The sample archives the operations are run on.                          *)
(***************************************************************************)
VersionTree == Tree(<<Node("hv", NS_HV, "HCFVersion", <<"a">>, <<>>, "")>>, <<>>, <<>>, "")

ManifestTree == Tree(<<Node("odf", NS_ODF, "manifest", <<>>, <<>>, "")>>, <<>>, <<>>, "")

Rootfile(path, media) == [path |-> path, media |-> media]

\* a container naming the content descriptor and the given attachments
ContainerTreeWith(attachments) ==
    Tree(<<Node("ocf", NS_OCF, "container", <<>>, <<>>, "")>>, <<>>,
         <<Rootfile(N_HPF, PACKAGE_MEDIA)>> \o attachments, "")

ContainerTree == ContainerTreeWith(<<>>)

Item(href, media) == [href |-> href, media |-> media]

\* The manifests of the sample content descriptors, with the namespace
\* their items are in: "slash" is "http://www.idpf.org/2007/opf/" (as
\* blank_file_maker writes it), "noslash" is "http://www.idpf.org/2007/opf".
Descriptors ==
    { [items |-> <<Item(N_SEC0, XML_MEDIA)>>, opf |-> "slash"],
      [items |-> <<Item(N_HEADER, XML_MEDIA), Item(N_SEC0, XML_MEDIA)>>, opf |-> "noslash"],
      [items |-> <<Item(N_SEC0, XML_MEDIA), Item(N_IMAGE, "image/png")>>, opf |-> "noslash"],
      [items |-> <<Item(N_VERSION, XML_MEDIA), Item(N_SEC0, XML_MEDIA)>>, opf |-> "slash"] }

HpfTree(items, opf) ==
    Tree(<<Node("opf", IF opf = "slash" THEN NS_OPF_SLASH ELSE NS_OPF_NOSLASH,
                "package", <<>>, <<>>, "")>>, items, <<>>, opf)

\* a body part: the <hs:sec> root and the given elements under it
SecTree(els) == Tree(<<Node("hs", NS_HS, "sec", <<>>, <<>>, "")>> \o els, <<>>, <<>>, "")

\* body parts with at most MaxElems text-bearing elements
SecTrees ==
    { SecTree(SubSeq(<<El(<<"a", "b">>, <<>>), El(<<"B">>, <<"a">>), El(<<"b">>, <<"b">>)>>,
                     1, n)) : n \in 1..MaxElems }

HeaderTree == Tree(<<Node("hh", NS_HH, "head", <<"A">>, <<>>, "")>>, <<>>, <<>>, "")

\* the mimetype entries of the samples: content and compression; <<>> is
\* an archive without the entry
MimeEntries ==
    { <<MIMETYPE, "stored">>,
      <<MIMETYPE, "deflated">>,
      <<<<"application/hwp+zip", "\n">>, "stored">>,
      <<<<" ", "application/hwp+zip">>, "stored">>,
      <<<<"application/haansofthwp">>, "stored">>,
      <<<<>>, "stored">> }

\* Layouts of the samples: the order of the structural parts ("canon": the
\* writers' order, "blank": blank_file_maker's, manifest before container)
\* and the compression recorded for the entries other than mimetype.
Layouts ==
    { [order |-> "canon", profile |-> "deflated"],
      [order |-> "canon", profile |-> "mixed"],
      [order |-> "blank", profile |-> "deflated"] }

CtypeIn(profile, name) ==
    IF profile = "deflated" THEN "deflated"
    ELSE CASE name = N_VERSION -> "bzip2"
           [] name = N_SEC0 -> "stored"
           [] name = N_IMAGE -> "stored"
           [] OTHER -> "deflated"

\* The entries of a sample archive.
MkArchive(mime, layout, desc, secForm, sec, extra) ==
    LET E(n, d) == Entry(n, d, CtypeIn(layout.profile, n))
        m == IF mime[1] = <<>> THEN <<>> ELSE <<Entry(N_MIME, Text(mime[1]), mime[2])>>
        ver == <<E(N_VERSION, Xml("src", VersionTree))>>
        con == <<E(N_CONTAINER, Xml("src", ContainerTree))>>
        man == <<E(N_MANIFEST, Xml("et", ManifestTree))>>
        hpf == <<E(N_HPF, Xml("src", HpfTree(desc.items, desc.opf)))>>
        core == IF layout.order = "canon" THEN ver \o con \o man \o hpf
                ELSE ver \o man \o con \o hpf
        hdr == IF \E i \in 1..Len(desc.items) : desc.items[i].href = N_HEADER
               THEN <<E(N_HEADER, Xml("src", HeaderTree))>> ELSE <<>>
        s0 == <<E(N_SEC0, Xml(secForm, sec))>>
        img == IF extra THEN <<E(N_IMAGE, Bin("png"))>> ELSE <<>>
        ext == IF extra THEN <<E(N_EXTRA, Bin("script"))>> ELSE <<>>
    IN  m \o core \o hdr \o s0 \o img \o ext

\* the documents every layout, descriptor and body part is combined in
BaseArchives ==
    { MkArchive(<<MIMETYPE, "stored">>, layout, desc, "src", sec, TRUE) :
        layout \in Layouts, desc \in Descriptors, sec \in SecTrees }

\* the same documents with the body part as ElementTree writes it, and
\* without the image and the unreferenced entry
FormArchives ==
    { MkArchive(<<MIMETYPE, "stored">>, [order |-> "canon", profile |-> "mixed"], desc,
                "et", SecTree(<<El(<<"a", "b">>, <<>>)>>), TRUE) : desc \in Descriptors }
    \cup
    { MkArchive(<<MIMETYPE, "stored">>, [order |-> "canon", profile |-> "deflated"], desc,
                "src", SecTree(<<El(<<"a", "b">>, <<>>)>>), FALSE) : desc \in Descriptors }

\* every mimetype variant of one document
MimeArchives ==
    { MkArchive(mime, [order |-> "canon", profile |-> "mixed"],
                [items |-> <<Item(N_SEC0, XML_MEDIA)>>, opf |-> "slash"],
                "src", SecTree(<<El(<<"a", "b">>, <<>>)>>), TRUE) :
        mime \in MimeEntries }

\* the archive with the data of an entry replaced, without an entry, with
\* an entry more at its end
WithData(a, name, data) ==
    [i \in 1..Len(a) |-> IF a[i].name = name THEN [a[i] EXCEPT !.data = data] ELSE a[i]]

Without(a, name) == SelectSeq(a, LAMBDA e : e.name # name)

\* a document with a header and a body part
TwoPartDoc ==
    MkArchive(<<MIMETYPE, "stored">>, [order |-> "canon", profile |-> "deflated"],
              [items |-> <<Item(N_HEADER, XML_MEDIA), Item(N_SEC0, XML_MEDIA)>>,
               opf |-> "slash"],
              "src", SecTree(<<El(<<"a", "b">>, <<>>)>>), TRUE)

\* the document with one of its XML parts not well-formed, or missing
BrokenArchives ==
    { WithData(TwoPartDoc, n, Bad) : n \in {N_CONTAINER, N_HPF, N_HEADER, N_SEC0} }
    \cup
    { Without(TwoPartDoc, n) :
        n \in {N_VERSION, N_CONTAINER, N_MANIFEST, N_HPF, N_HEADER, N_SEC0} }

\* an element carrying a chartIDRef attribute
ChartEl(ref) == Node("hp", NS_HP, "chart", <<>>, <<>>, ref)

\* A document whose container lists two attachments, whose descriptor
\* lists two images and whose body part refers to two charts; present says
\* whether the first of each pair is in the archive (the second never is).
RefDoc(present) ==
    LET a == MkArchive(<<MIMETYPE, "stored">>, [order |-> "canon", profile |-> "mixed"],
                       [items |-> <<Item(N_SEC0, XML_MEDIA), Item(N_IMAGE, "image/png"),
                                    Item(N_NO_IMAGE, "image/png")>>,
                        opf |-> "slash"],
                       "src",
                       SecTree(<<ChartEl(N_CHART), El(<<"a", "b">>, <<>>), ChartEl(N_NO_CHART)>>),
                       present)
        c == WithData(a, N_CONTAINER,
                      Xml("src", ContainerTreeWith(<<Rootfile(N_PREVIEW, "text/plain"),
                                                     Rootfile(N_NO_PREVIEW, "image/png")>>)))
    IN  IF present
        THEN c \o <<Entry(N_PREVIEW, Text(<<"a", "b">>), "deflated"),
                    Entry(N_CHART, Bin("chart"), "deflated")>>
        ELSE c

RefArchives == {RefDoc(present) : present \in BOOLEAN}

\* the document with a body part that has an element in a namespace the
\* format does not define, and with one that writes the paragraph
\* namespace with a prefix of its own
NsDoc(el) ==
    MkArchive(<<MIMETYPE, "stored">>, [order |-> "canon", profile |-> "deflated"],
              [items |-> <<Item(N_HEADER, XML_MEDIA), Item(N_SEC0, XML_MEDIA)>>,
               opf |-> "slash"],
              "src", SecTree(<<El(<<"a", "b">>, <<>>), el>>), TRUE)

NsArchives ==
    { NsDoc(Node("cx", NS_CUSTOM, "note", <<"a">>, <<>>, "")),
      NsDoc(Node("p", NS_HP, "t", <<"a">>, <<>>, "")) }

Archives ==
    BaseArchives \cup FormArchives \cup MimeArchives \cup BrokenArchives \cup RefArchives
    \cup NsArchives

(***************************************************************************)
(* Python values held by a package: a str or a bytes object with the given *)
(* content.  str.encode("utf-8") turns the first into the second.          *)
(***************************************************************************)
PyStr(d) == [py |-> "str", v |-> d]

PyBytes(d) == [py |-> "bytes", v |-> d]

Utf8Encode(s) == PyBytes(s.v)

(***************************************************************************)
(* str.strip(): drops the leading and the trailing whitespace.             *)
(***************************************************************************)
RECURSIVE LStrip(_)
LStrip(toks) ==
    IF toks # <<>> /\ Head(toks) \in WS THEN LStrip(Tail(toks)) ELSE toks

RECURSIVE RStrip(_)
RStrip(toks) ==
    IF toks # <<>> /\ toks[Len(toks)] \in WS
    THEN RStrip(SubSeq(toks, 1, Len(toks) - 1))
    ELSE toks

Strip(toks) == LStrip(RStrip(toks))

(***************************************************************************)
(* ElementTree's process-wide prefix table (uri -> prefix), a set of       *)
(* <<uri, prefix>> pairs, and the serializer that consults it.             *)
(***************************************************************************)
\* the table of a fresh process
DEFAULT_NAMESPACE_MAP ==
    { <<"http://www.w3.org/XML/1998/namespace", "xml">>,
      <<"http://www.w3.org/1999/xhtml", "html">>,
      <<"http://www.w3.org/1999/02/22-rdf-syntax-ns#", "rdf">>,
      <<"http://schemas.xmlsoap.org/wsdl/", "wsdl">>,
      <<"http://www.w3.org/2001/XMLSchema", "xs">>,
      <<"http://www.w3.org/2001/XMLSchema-instance", "xsi">>,
      <<"http://purl.org/dc/elements/1.1/", "dc">> }

\* the prefixes the serializer generates for a URI the table does not bind
Placeholders == {"ns0", "ns1", "ns2", "ns3"}

Placeholder(k) == CASE k = 0 -> "ns0" [] k = 1 -> "ns1" [] k = 2 -> "ns2" [] OTHER -> "ns3"

IsBound(table, uri) == \E e \in table : e[1] = uri

PrefixOf(table, uri) == (CHOOSE e \in table : e[1] = uri)[2]

\* ET.register_namespace(prefix, uri): every entry with that uri or that
\* prefix is dropped, then uri is bound to prefix (the caller has checked
\* that the prefix is not a placeholder, for which it raises ValueError)
register_namespace(table, prefix, uri) ==
    {e \in table : e[1] # uri /\ e[2] # prefix} \cup {<<uri, prefix>>}

RECURSIVE RegisterAll(_, _)
RegisterAll(table, pairs) ==
    IF pairs = <<>> THEN table
    ELSE RegisterAll(register_namespace(table, Head(pairs)[1], Head(pairs)[2]), Tail(pairs))

\* register_hwpx_namespaces leaving alone a URI that is bound already
register_hwpx_namespaces_IfUnbound(table) ==
    RegisterAll(table, SelectSeq(HWPX_NAMESPACES, LAMBDA pair : ~IsBound(table, pair[2])))

\* _register_hwpx_namespaces (writer.py and text_modifier.py: the same 18 calls)
register_hwpx_namespaces(table) == RegisterAll(table, HWPX_NAMESPACES)

\* the serializer's pass over the tags: a URI gets the prefix the table
\* binds it to, else ns<k>, k being the number of URIs that got a prefix
\* before it in this document; qnames is the dict uri -> prefix so far
RECURSIVE SerializeEls(_, _, _, _)
SerializeEls(els, table, qnames, done) ==
    IF els = <<>> THEN done
    ELSE LET e == Head(els) IN
         IF e.ns = "" THEN SerializeEls(Tail(els), table, qnames, Append(done, [e EXCEPT !.prefix = ""]))
         ELSE IF HasKey(qnames, e.ns)
         THEN SerializeEls(Tail(els), table, qnames,
                           Append(done, [e EXCEPT !.prefix = Get(qnames, e.ns)]))
         ELSE LET prefix == IF IsBound(table, e.ns) THEN PrefixOf(table, e.ns)
                            ELSE Placeholder(Len(qnames))
              IN  SerializeEls(Tail(els), table, Put(qnames, e.ns, prefix),
                               Append(done, [e EXCEPT !.prefix = prefix]))

\* the tree as the serializer writes it under a table
Serialized(tree, table) == [tree EXCEPT !.els = SerializeEls(tree.els, table, <<>>, <<>>)]

\* the tree ET.parse builds from a document text: the prefixes are gone
ParsedTree(tree) ==
    [tree EXCEPT !.els = [i \in 1..Len(tree.els) |-> [tree.els[i] EXCEPT !.prefix = ""]]]

(***************************************************************************)
(* reader.py                                                               *)
(***************************************************************************)
\* class HWPXFile: the dataclass has exactly these seven fields.  The three
\* attributes the writers look for (original_xml_strings, all_files,
\* modified_files) are not fields of it: has = FALSE says the attribute is
\* not set on the object.
NoAttr == [has |-> FALSE, d |-> <<>>]

\* the same for an attribute holding a set
NoSetAttr == [has |-> FALSE, d |-> {}]

Attr(d) == [has |-> TRUE, d |-> d]

HWPXFile ==
    [ version_xml |-> None, container_xml |-> None, manifest_xml |-> None,
      content_hpf |-> None, content_files |-> <<>>, binary_files |-> <<>>,
      charts |-> <<>>,
      original_xml_strings |-> NoAttr, all_files |-> NoAttr, modified_files |-> NoSetAttr ]

\* no package object (nothing read yet, or the read raised)
NoPkg == [ok |-> FALSE, p |-> HWPXFile]

Pkg(p) == [ok |-> TRUE, p |-> p]

\* _check_mimetype: "" when the entry passes, else the error raised
CheckMimetype(a) ==
    IF ~HasEntry(a, N_MIME) THEN "ValueError"
    ELSE IF Strip(EntryOf(a, N_MIME).data.toks) # MIMETYPE THEN "ValueError"
    ELSE ""

\* Malformed for a parser that raises on nothing
Malformed_Never(a, name) == FALSE

\* ET.parse raises ParseError on an entry that is not well-formed XML
Malformed(a, name) == HasEntry(a, name) /\ EntryOf(a, name).data.t # "xml"

\* _read_xml: the parsed tree, None when the archive has no such entry
\* (evaluated only for entries that are not Malformed)
ReadXml(a, name) ==
    IF HasEntry(a, name) THEN ParsedTree(EntryOf(a, name).data.tree) ELSE None

\* ReadInto storing empty bytes under a name the archive lacks
ReadInto_EmptyWhenMissing(d, a, name) ==
    IF HasEntry(a, name) THEN Put(d, name, PyBytes(EntryOf(a, name).data))
    ELSE Put(d, name, PyBytes(Text(<<>>)))

\* zf.read(name) into a dict, a missing entry (KeyError) being ignored
ReadInto(d, a, name) ==
    IF HasEntry(a, name) THEN Put(d, name, PyBytes(EntryOf(a, name).data)) ELSE d

\* _parse_container: <<package_path, attachments>>; package_path "" is None
RECURSIVE ParseContainerFrom(_, _, _)
ParseContainerFrom(roots, package_path, attachments) ==
    IF roots = <<>> THEN <<package_path, attachments>>
    ELSE LET r == Head(roots) IN
         IF r.media = PACKAGE_MEDIA
         THEN ParseContainerFrom(Tail(roots), r.path, attachments)
         ELSE IF r.path # ""
         THEN ParseContainerFrom(Tail(roots), package_path, Append(attachments, r.path))
         ELSE ParseContainerFrom(Tail(roots), package_path, attachments)

ParseContainer(container_xml) ==
    IF container_xml.tag = "None" THEN <<"", <<>>>>
    ELSE ParseContainerFrom(container_xml.roots, "", <<>>)

\* ParseContentManifest keeping the items of the XML media type only
ParseContentManifest_XmlOnly(content_hpf) ==
    IF content_hpf.tag = "None" THEN <<>>
    ELSE SelectSeq(content_hpf.items, LAMBDA it : it.href # "" /\ it.media = XML_MEDIA)

\* _parse_content_manifest: the items with a non-empty href
ParseContentManifest(content_hpf) ==
    IF content_hpf.tag = "None" THEN <<>>
    ELSE SelectSeq(content_hpf.items, LAMBDA it : it.href # "")

\* _extract_charts: loads each chart reference not loaded yet
RECURSIVE ExtractCharts(_, _, _)
ExtractCharts(els, a, charts) ==
    IF els = <<>> THEN charts
    ELSE LET ref == Head(els).chart IN
         IF ref # "" /\ ~HasKey(charts, ref)
         THEN ExtractCharts(Tail(els), a, ReadInto(charts, a, ref))
         ELSE ExtractCharts(Tail(els), a, charts)

RECURSIVE ReadAttachments(_, _, _)
ReadAttachments(attachments, a, bins) ==
    IF attachments = <<>> THEN bins
    ELSE ReadAttachments(Tail(attachments), a, ReadInto(bins, a, Head(attachments)))

\* the loop over the manifest items (reader.py 76-86); r is
\* [err, p]: once an item raised, the rest is not run
RECURSIVE ReadItems(_, _, _)
ReadItems(items, a, r) ==
    IF items = <<>> \/ r.err # "" THEN r
    ELSE LET it == Head(items)
             p == r.p
         IN  IF it.media = XML_MEDIA
             THEN IF Malformed(a, it.href)
                  THEN [r EXCEPT !.err = "ParseError"]
                  ELSE LET tree == ReadXml(a, it.href) IN
                       IF tree.tag # "None"
                       THEN ReadItems(Tail(items), a,
                                [r EXCEPT !.p.content_files = Put(p.content_files, it.href, tree),
                                          !.p.charts = ExtractCharts(tree.els, a, p.charts)])
                       ELSE ReadItems(Tail(items), a, r)
             ELSE ReadItems(Tail(items), a,
                      [r EXCEPT !.p.binary_files = ReadInto(p.binary_files, a, it.href)])

\* HWPXReader.read: [err, p], err = "" when the package p is returned
HWPXReader_read(a) ==
    LET fail(e) == [err |-> e, p |-> HWPXFile] IN
    IF CheckMimetype(a) # "" THEN fail(CheckMimetype(a))
    ELSE IF Malformed(a, N_VERSION) \/ Malformed(a, N_CONTAINER) \/ Malformed(a, N_MANIFEST)
    THEN fail("ParseError")
    ELSE LET pc == ParseContainer(ReadXml(a, N_CONTAINER))
             package_path == pc[1]
             p1 == [HWPXFile EXCEPT
                      !.version_xml = ReadXml(a, N_VERSION),
                      !.container_xml = ReadXml(a, N_CONTAINER),
                      !.manifest_xml = ReadXml(a, N_MANIFEST),
                      !.binary_files = ReadAttachments(pc[2], a, <<>>)]
         IN  IF package_path = "" THEN [err |-> "", p |-> p1]
             ELSE IF Malformed(a, package_path) THEN fail("ParseError")
             ELSE LET hpf == ReadXml(a, package_path)
                      r == ReadItems(ParseContentManifest(hpf), a,
                                     [err |-> "", p |-> [p1 EXCEPT !.content_hpf = hpf]])
                  IN  IF r.err # "" THEN fail(r.err) ELSE r

(***************************************************************************)
(* text_modifier.py: the transform loop of modify_hwpx_text.               *)
(***************************************************************************)
\* the modifier functions the callers of this repository pass
\* (str.upper, str.lower, a function that changes nothing, a function that
\* returns the empty string, a function that appends a mark)
Modifiers == {"upper", "lower", "same", "clear", "mark"}

\* a modifier function: one of Modifiers, or the replacer closure of
\* replace_text_in_hwpx with its search_text, replace_text, case_sensitive
ModifierFunc(kind) == [kind |-> kind, s |-> <<>>, r |-> <<>>, cs |-> TRUE]

Replacer(search_text, replace_text, case_sensitive) ==
    [kind |-> "replace", s |-> search_text, r |-> replace_text, cs |-> case_sensitive]

UpperChar(c) == CASE c = "a" -> "A" [] c = "b" -> "B" [] OTHER -> c

LowerChar(c) == CASE c = "A" -> "a" [] c = "B" -> "b" [] OTHER -> c

\* text[1..] starts with s (a non-empty string), letter case ignored
\* under re.IGNORECASE
StartsWith(text, s, cs) ==
    /\ Len(text) >= Len(s)
    /\ \A i \in 1..Len(s) :
          IF cs THEN text[i] = s[i] ELSE LowerChar(text[i]) = LowerChar(s[i])

\* text.replace(s, r) / pattern.sub(r, text): the occurrences found left
\* to right, without overlap
RECURSIVE ReplaceAll(_, _, _, _)
ReplaceAll(text, s, r, cs) ==
    IF text = <<>> THEN <<>>
    ELSE IF StartsWith(text, s, cs)
    THEN r \o ReplaceAll(SubSeq(text, Len(s) + 1, Len(text)), s, r, cs)
    ELSE <<Head(text)>> \o ReplaceAll(Tail(text), s, r, cs)

\* text.count(s) / len(pattern.findall(text))
RECURSIVE CountAll(_, _, _)
CountAll(text, s, cs) ==
    IF text = <<>> THEN 0
    ELSE IF StartsWith(text, s, cs)
    THEN 1 + CountAll(SubSeq(text, Len(s) + 1, Len(text)), s, cs)
    ELSE CountAll(Tail(text), s, cs)

\* modifier_func(text)
ApplyModifier(f, text) ==
    CASE f.kind = "upper" -> [i \in 1..Len(text) |-> UpperChar(text[i])]
      [] f.kind = "lower" -> [i \in 1..Len(text) |-> LowerChar(text[i])]
      [] f.kind = "clear" -> <<>>
      [] f.kind = "mark" -> Append(text, "!")
      [] f.kind = "replace" -> ReplaceAll(text, f.s, f.r, f.cs)
      [] OTHER -> text

\* what the replacer adds to replace_count over the calls the transform
\* loop makes: one call for each non-empty text and each non-empty tail
RECURSIVE CountEls(_, _)
CountEls(f, els) ==
    IF els = <<>> THEN 0
    ELSE (IF Head(els).text # <<>> THEN CountAll(Head(els).text, f.s, f.cs) ELSE 0)
         + (IF Head(els).tail # <<>> THEN CountAll(Head(els).tail, f.s, f.cs) ELSE 0)
         + CountEls(f, Tail(els))

RECURSIVE ReplaceCount(_, _)
ReplaceCount(f, content_files) ==
    IF content_files = <<>> THEN 0
    ELSE CountEls(f, Head(content_files)[2].els) + ReplaceCount(f, Tail(content_files))

\* ModifyElem without the comparison of the result with the old value
ModifyElem_NoCompare(f, elem) ==
    << [elem EXCEPT !.text = ApplyModifier(f, elem.text),
                    !.tail = ApplyModifier(f, elem.tail)],
       elem.text # <<>> \/ elem.tail # <<>> >>

\* ModifyElem without the tests `if elem.text:` and `if elem.tail:`
ModifyElem_Unguarded(f, elem) ==
    LET modified_text == ApplyModifier(f, elem.text)
        modified_tail == ApplyModifier(f, elem.tail)
    IN  << [elem EXCEPT !.text = modified_text, !.tail = modified_tail],
           elem.text # modified_text \/ elem.tail # modified_tail >>

\* lines 62-73 for one element: <<element after, whether it was changed>>
ModifyElem(f, elem) ==
    LET modified_text == ApplyModifier(f, elem.text)
        textChanged == elem.text # <<>> /\ elem.text # modified_text
        modified_tail == ApplyModifier(f, elem.tail)
        tailChanged == elem.tail # <<>> /\ elem.tail # modified_tail
    IN  << [elem EXCEPT !.text = IF textChanged THEN modified_text ELSE @,
                        !.tail = IF tailChanged THEN modified_tail ELSE @],
           textChanged \/ tailChanged >>

\* lines 60-73 for one tree: <<tree after, has_modifications>>
RECURSIVE ModifyEls(_, _, _, _)
ModifyEls(f, els, done, has_modifications) ==
    IF els = <<>> THEN <<done, has_modifications>>
    ELSE LET r == ModifyElem(f, Head(els)) IN
         ModifyEls(f, Tail(els), Append(done, r[1]), has_modifications \/ r[2])

\* lines 59-77: the loop over hwpx.content_files
RECURSIVE ModifyFiles(_, _, _, _)
ModifyFiles(f, todo, content_files, modified_files) ==
    IF todo = <<>> THEN <<content_files, modified_files>>
    ELSE LET name == Head(todo)[1]
             tree == Get(content_files, name)
             r == ModifyEls(f, tree.els, <<>>, FALSE)
         IN  ModifyFiles(f, Tail(todo),
                         Put(content_files, name, [tree EXCEPT !.els = r[1]]),
                         IF r[2] THEN modified_files \cup {name} ELSE modified_files)

\* lines 54-77: the package after the transform loop
ModifyLoop(f, p) ==
    LET mf == IF p.modified_files.has THEN p.modified_files.d ELSE {}
        r == ModifyFiles(f, p.content_files, p.content_files, mf)
    IN  [p EXCEPT !.content_files = r[1], !.modified_files = [has |-> TRUE, d |-> r[2]]]

(***************************************************************************)
(* Pieces the three save functions share.                                  *)
(***************************************************************************)
\* ET.tostring(tree.getroot(), ..., xml_declaration=True): the text
\* ElementTree writes for a tree
ET_tostring(tree, table) == PyStr(Xml("et", Serialized(tree, table)))

\* name in hwpx.modified_files, guarded by hasattr
InModified(p, name) == p.modified_files.has /\ name \in p.modified_files.d

\* The archive the compression is copied from: "source" is the archive the
\* package was read from, "unreadable" a path zipfile cannot open, "none"
\* no path (original_path is None).
OrigPaths == {"source", "unreadable", "none"}

\* extract_compression_info, and the same loop in the two other writers:
\* name -> compress_type of the reference archive, {} when it cannot be read
RECURSIVE InfoOf(_, _)
InfoOf(entries, info) ==
    IF entries = <<>> THEN info
    ELSE InfoOf(Tail(entries), Put(info, Head(entries).name, Head(entries).ctype))

extract_compression_info(a, orig) == IF orig = "source" THEN InfoOf(a, <<>>) ELSE <<>>

\* CompressType ignoring what the reference archive recorded
CompressType_AlwaysDeflated(compression_info, filename) == "deflated"

\* compression_info.get(filename, zipfile.ZIP_DEFLATED)
CompressType(compression_info, filename) ==
    IF HasKey(compression_info, filename) THEN Get(compression_info, filename)
    ELSE "deflated"

\* CoreRaises for a default that is evaluated only when the text is missing
CoreRaises_LazyDefault(p) ==
    \/ ~p.original_xml_strings.has
    \/ p.version_xml.tag = "None" /\ ~HasKey(p.original_xml_strings.d, N_VERSION)
    \/ p.container_xml.tag = "None" /\ ~HasKey(p.original_xml_strings.d, N_CONTAINER)
    \/ p.manifest_xml.tag = "None" /\ ~HasKey(p.original_xml_strings.d, N_MANIFEST)
    \/ p.content_hpf.tag = "None" /\ ~HasKey(p.original_xml_strings.d, N_HPF)

\* hwpx.original_xml_strings.get(name, ET.tostring(tree.getroot(), ...)):
\* Python evaluates the default before the lookup, so a None tree raises
\* whether or not the original text is there.
CoreRaises(p) ==
    \/ ~p.original_xml_strings.has
    \/ p.version_xml.tag = "None"
    \/ p.container_xml.tag = "None"
    \/ p.manifest_xml.tag = "None"
    \/ p.content_hpf.tag = "None"

CoreText(p, name, tree, table) ==
    IF HasKey(p.original_xml_strings.d, name)
    THEN Get(p.original_xml_strings.d, name)
    ELSE ET_tostring(tree, table)

\* the four strings version_xml, container_xml, manifest_xml, content_hpf
CoreTexts(p, table) ==
    << <<N_VERSION, CoreText(p, N_VERSION, p.version_xml, table)>>,
       <<N_CONTAINER, CoreText(p, N_CONTAINER, p.container_xml, table)>>,
       <<N_MANIFEST, CoreText(p, N_MANIFEST, p.manifest_xml, table)>>,
       <<N_HPF, CoreText(p, N_HPF, p.content_hpf, table)>> >>

\* zf.writestr(info, data): the entry written; data is a str or a bytes
ZipEntry(name, pyval, ctype) == Entry(name, pyval.v, ctype)

MimetypeEntry(mimetype) == Entry(N_MIME, Text(mimetype), "stored")

NoOut == [exists |-> FALSE, entries |-> <<>>]

Written(entries) == [exists |-> TRUE, entries |-> entries]

(***************************************************************************)
(* compatible_writer.py                                                    *)
(***************************************************************************)
\* CompatibleHwpxWriter._encode raises TypeError for a value that is
\* neither str nor bytes
EncodeRaises(pyval) == pyval.py \notin {"str", "bytes"}

\* CompatibleHwpxWriter._encode
Compat_encode(pyval) == IF pyval.py = "str" THEN Utf8Encode(pyval) ELSE pyval

\* the two loops of CompatibleHwpxWriter.write (lines 46-61) over a dict
\* name -> content; r is [err, entries]: the entries written so far
RECURSIVE CompatWriteAll(_, _, _)
CompatWriteAll(files, compression_info, r) ==
    IF files = <<>> \/ r.err # "" THEN r
    ELSE LET filename == Head(files)[1]
             data == Head(files)[2]
         IN  IF EncodeRaises(data) THEN [r EXCEPT !.err = "TypeError"]
             ELSE CompatWriteAll(Tail(files), compression_info,
                     [r EXCEPT !.entries = Append(@,
                         ZipEntry(filename, Compat_encode(data),
                                  CompressType(compression_info, filename)))])

\* CompatibleHwpxWriter.write: mimetype, the four core files, then files
CompatibleHwpxWriter_write(core_files, files, mimetype, compression_info) ==
    LET r0 == [err |-> "", entries |-> <<MimetypeEntry(mimetype)>>]
        r1 == CompatWriteAll(core_files, compression_info, r0)
    IN  CompatWriteAll(files, compression_info, r1)

\* CompatContent re-serializing every content part, modified or not
RECURSIVE CompatContent_AlwaysSerialize(_, _, _, _)
CompatContent_AlwaysSerialize(todo, p, files, table) ==
    IF todo = <<>> THEN files
    ELSE CompatContent_AlwaysSerialize(Tail(todo), p,
             Put(files, Head(todo)[1], Utf8Encode(ET_tostring(Head(todo)[2], table))), table)

\* lines 116-126: the content parts written over the copy of all_files
RECURSIVE CompatContent(_, _, _, _)
CompatContent(todo, p, files, table) ==
    IF todo = <<>> THEN files
    ELSE LET name == Head(todo)[1]
             tree == Head(todo)[2]
             has_text_modifications == InModified(p, name)
             xml_content ==
                 IF HasKey(p.original_xml_strings.d, name) /\ ~has_text_modifications
                 THEN Get(p.original_xml_strings.d, name)
                 ELSE ET_tostring(tree, table)
         IN  CompatContent(Tail(todo), p, Put(files, name, Utf8Encode(xml_content)), table)

\* lines 109-113: the four core texts put into files
RECURSIVE PutAllEncoded(_, _)
PutAllEncoded(files, texts) ==
    IF texts = <<>> THEN files
    ELSE PutAllEncoded(Put(files, Head(texts)[1], Utf8Encode(Head(texts)[2])), Tail(texts))

\* CompatFiles starting from the parts the reader loaded as binaries
CompatFiles_FromBinaryFiles(p, texts) == PutAllEncoded(p.binary_files, texts)

\* lines 106-113: files = dict(hwpx.all_files), then the four core texts
CompatFiles(p, texts) == PutAllEncoded(p.all_files.d, texts)

\* lines 129-135: the core files and mimetype popped out of files
CompatPopped(files) ==
    Pop(Pop(Pop(Pop(Pop(files, N_VERSION), N_CONTAINER), N_MANIFEST), N_HPF), N_MIME)

\* save_modified_hwpx_compatible(hwpx, output_path, original_path):
\* [err, out], err = "" when it returned
save_modified_hwpx_compatible(p, a, orig, table) ==
    IF CoreRaises(p) \/ ~p.all_files.has
    THEN [err |-> "AttributeError", out |-> NoOut]
    ELSE LET compression_info == extract_compression_info(a, orig)
             texts == CoreTexts(p, table)
             files0 == CompatFiles(p, texts)
             files1 == CompatContent(p.content_files, p, files0, table)
             r == CompatibleHwpxWriter_write(texts, CompatPopped(files1), MIMETYPE,
                                             compression_info)
         IN  [err |-> r.err, out |-> Written(r.entries)]

(***************************************************************************)
(* writer.py                                                               *)
(***************************************************************************)
\* lines 156-164 (and text_modifier.py 235-243): the four core files
RECURSIVE ZipCore(_, _, _)
ZipCore(texts, compression_info, entries) ==
    IF texts = <<>> THEN entries
    ELSE ZipCore(Tail(texts), compression_info,
                 Append(entries, ZipEntry(Head(texts)[1], Utf8Encode(Head(texts)[2]),
                                          CompressType(compression_info, Head(texts)[1]))))

\* writer.py lines 174-189: one entry per content part, in dict order
RECURSIVE Writer_content(_, _, _, _, _)
Writer_content(todo, p, compression_info, entries, table) ==
    IF todo = <<>> THEN entries
    ELSE LET name == Head(todo)[1]
             tree == Head(todo)[2]
             xml_content ==
                 IF InModified(p, name) THEN Utf8Encode(ET_tostring(tree, table))
                 ELSE IF HasKey(p.original_xml_strings.d, name)
                 THEN Utf8Encode(Get(p.original_xml_strings.d, name))
                 ELSE Utf8Encode(ET_tostring(tree, table))
         IN  Writer_content(Tail(todo), p, compression_info,
                 Append(entries, ZipEntry(name, xml_content,
                                          CompressType(compression_info, name))), table)

\* writer.py lines 191-195 (and text_modifier.py 270-274): the entries of
\* all_files not processed yet; zipfile raises TypeError for data that is
\* neither str nor bytes
RECURSIVE ZipRest(_, _, _, _)
ZipRest(todo, processed, compression_info, r) ==
    IF todo = <<>> \/ r.err # "" THEN r
    ELSE LET filename == Head(todo)[1]
             data == Head(todo)[2]
         IN  IF filename \in processed
             THEN ZipRest(Tail(todo), processed, compression_info, r)
             ELSE IF data.py \notin {"str", "bytes"} THEN [r EXCEPT !.err = "TypeError"]
             ELSE ZipRest(Tail(todo), processed, compression_info,
                     [r EXCEPT !.entries = Append(@,
                         ZipEntry(filename, data, CompressType(compression_info, filename)))])

\* writer.py lines 124-195: the ZIP writer save_modified_hwpx falls back to
Writer_fallback(p, a, orig, table) ==
    IF CoreRaises(p) THEN [err |-> "AttributeError", out |-> NoOut]
    ELSE LET compression_info == extract_compression_info(a, orig)
             e1 == ZipCore(CoreTexts(p, table), compression_info, <<MimetypeEntry(MIMETYPE)>>)
             e2 == Writer_content(p.content_files, p, compression_info, e1, table)
             processed == {N_MIME} \cup CoreSet \cup Keys(p.content_files)
         IN  IF ~p.all_files.has
             THEN [err |-> "AttributeError", out |-> Written(e2)]
             ELSE LET r == ZipRest(p.all_files.d, processed, compression_info,
                                   [err |-> "", entries |-> e2])
                  IN  [err |-> r.err, out |-> Written(r.entries)]

\* line 121: logging.warning("compatible writer failed: %s", exc)
LOG_COMPATIBLE_FAILED == "compatible writer failed"

\* save_modified_hwpx(hwpx, output_path, original_path, use_compatible),
\* table being the prefix table after its _register_hwpx_namespaces() call:
\* any exception of the compatible writer is logged and the ZIP writer runs
save_modified_hwpx(p, a, orig, use_compatible, table) ==
    LET c == save_modified_hwpx_compatible(p, a, orig, table)
        z == Writer_fallback(p, a, orig, table)
    IN  IF use_compatible /\ orig # "none"
        THEN IF c.err = "" THEN [err |-> "", out |-> c.out, log |-> <<>>]
             ELSE [err |-> z.err, out |-> z.out, log |-> <<LOG_COMPATIBLE_FAILED>>]
        ELSE [err |-> z.err, out |-> z.out, log |-> <<>>]

(***************************************************************************)
(* text_modifier.py: _save_modified_hwpx                                   *)
(***************************************************************************)
\* text_modifier.py lines 252-267
RECURSIVE TextModifier_content(_, _, _, _, _)
TextModifier_content(todo, p, compression_info, entries, table) ==
    IF todo = <<>> THEN entries
    ELSE LET name == Head(todo)[1]
             tree == Head(todo)[2]
             xml_content ==
                 IF InModified(p, name) THEN Utf8Encode(ET_tostring(tree, table))
                 ELSE IF HasKey(p.original_xml_strings.d, name)
                 THEN Utf8Encode(Get(p.original_xml_strings.d, name))
                 ELSE Utf8Encode(ET_tostring(tree, table))
         IN  TextModifier_content(Tail(todo), p, compression_info,
                 Append(entries, ZipEntry(name, xml_content,
                                          CompressType(compression_info, name))), table)

\* text_modifier.py lines 201-274
TextModifier_fallback(p, a, orig, table) ==
    IF CoreRaises(p) THEN [err |-> "AttributeError", out |-> NoOut]
    ELSE LET compression_info == extract_compression_info(a, orig)
             e1 == ZipCore(CoreTexts(p, table), compression_info, <<MimetypeEntry(MIMETYPE)>>)
             e2 == TextModifier_content(p.content_files, p, compression_info, e1, table)
             processed_files == {N_MIME} \cup CoreSet \cup Keys(p.content_files)
         IN  IF ~p.all_files.has
             THEN [err |-> "AttributeError", out |-> Written(e2)]
             ELSE LET r == ZipRest(p.all_files.d, processed_files, compression_info,
                                   [err |-> "", entries |-> e2])
                  IN  [err |-> r.err, out |-> Written(r.entries)]

\* _save_modified_hwpx(hwpx, output_path, original_path), table being the
\* prefix table after its _register_hwpx_namespaces() call: with an
\* original_path the compatible writer runs and what it raises propagates
\* (compatible_writer is a module of the repository, the import succeeds)
TextModifier_save(p, a, orig, table) ==
    IF orig # "none" THEN save_modified_hwpx_compatible(p, a, orig, table)
    ELSE TextModifier_fallback(p, a, orig, table)

(***************************************************************************)
(* writer.py: HwpxWriter                                                   *)
(***************************************************************************)
\* lines 44-54: the hrefs of the items in the namespace
\* "http://www.idpf.org/2007/opf" (tree.opf = "noslash"); a content_hpf
\* that does not parse references nothing
Referenced(content_hpf) ==
    IF content_hpf.v.t = "xml" /\ content_hpf.v.tree.opf = "noslash"
    THEN {it.href : it \in {x \in Range(content_hpf.v.tree.items) : x.href # ""}}
    ELSE {}

\* `for path in referenced` iterates a set of str: the orders it can take
\* (str hashes are randomised per process)
SetOrders(S) == {o \in [1..Cardinality(S) -> S] : \A x \in S : \E i \in DOMAIN o : o[i] = x}

\* HwpxWriter._encode
HwpxWriter_encode(pyval) == IF pyval.py = "bytes" THEN pyval ELSE Utf8Encode(pyval)

\* lines 69-72: r is [err, entries]
RECURSIVE WriteReferenced(_, _, _)
WriteReferenced(order, files, r) ==
    IF order = <<>> \/ r.err # "" THEN r
    ELSE LET path == Head(order) IN
         IF ~HasKey(files, path) THEN [r EXCEPT !.err = "KeyError"]
         ELSE WriteReferenced(Tail(order), files,
                 [r EXCEPT !.entries = Append(@,
                     ZipEntry(path, HwpxWriter_encode(Get(files, path)), "deflated"))])

\* WriteRemaining without the loop over the remaining files
WriteRemaining_Nothing(files, referenced, entries) == entries

\* lines 75-78
RECURSIVE WriteRemaining(_, _, _)
WriteRemaining(files, referenced, entries) ==
    IF files = <<>> THEN entries
    ELSE IF Head(files)[1] \in referenced
    THEN WriteRemaining(Tail(files), referenced, entries)
    ELSE WriteRemaining(Tail(files), referenced,
             Append(entries, ZipEntry(Head(files)[1], HwpxWriter_encode(Head(files)[2]),
                                      "deflated")))

\* HwpxWriter(version_xml, ..., files, mimetype).write(output), the set
\* `referenced` being iterated in the given order
HwpxWriter_write(version_xml, container_xml, manifest_xml, content_hpf, files, mimetype, order) ==
    LET e0 == << MimetypeEntry(mimetype),
                 ZipEntry(N_VERSION, HwpxWriter_encode(version_xml), "deflated"),
                 ZipEntry(N_CONTAINER, HwpxWriter_encode(container_xml), "deflated"),
                 ZipEntry(N_MANIFEST, HwpxWriter_encode(manifest_xml), "deflated"),
                 ZipEntry(N_HPF, HwpxWriter_encode(content_hpf), "deflated") >>
        r == WriteReferenced(order, files, [err |-> "", entries |-> e0])
    IN  IF r.err # "" THEN [err |-> r.err, out |-> Written(r.entries)]
        ELSE [err |-> "", out |-> Written(WriteRemaining(files, Referenced(content_hpf), r.entries))]

\* HwpxWriter.__init__: the mimetype argument, "default" when it is omitted
WriterMimetype(arg) == IF arg = "default" THEN DEFAULT_WRITER_MIMETYPE ELSE MIMETYPE

\* ET.tostring(tree.getroot(), encoding="unicode"): no XML declaration
ET_tostring_nodecl(tree, table) == PyStr(Xml("etn", Serialized(tree, table)))

\* the files argument a caller builds from a package, as
\* tests/test_reader_writer.py does: every content part serialized
SerializedFiles(content_files, table) ==
    [i \in 1..Len(content_files) |->
        <<content_files[i][1], ET_tostring_nodecl(content_files[i][2], table)>>]

(***************************************************************************)
(* text_extractor.py                                                       *)
(***************************************************************************)
\* name.startswith("Contents/section") and name.endswith(".xml")
IsSectionName(name) == name = N_SEC0

\* the loop over root.iter(HP_NAMESPACE + "t")
RECURSIVE TextOfEls(_)
TextOfEls(els) ==
    IF els = <<>> THEN <<>>
    ELSE (IF Head(els).ns = NS_HP /\ Head(els).name = "t" THEN Head(els).text ELSE <<>>)
         \o TextOfEls(Tail(els))

\* extract_text(path): [err, text]; every name of the name list is read
\* (zf.read finds the last entry of a name)
RECURSIVE ExtractFrom(_, _, _)
ExtractFrom(names, entries, r) ==
    IF names = <<>> \/ r.err # "" THEN r
    ELSE IF ~IsSectionName(Head(names)) THEN ExtractFrom(Tail(names), entries, r)
    ELSE IF Malformed(entries, Head(names)) THEN [r EXCEPT !.err = "ParseError"]
    ELSE ExtractFrom(Tail(names), entries,
             [r EXCEPT !.text = @ \o TextOfEls(ReadXml(entries, Head(names)).els)])

extract_text(a) ==
    IF ~a.exists THEN [err |-> "FileNotFoundError", text |-> <<>>]
    ELSE ExtractFrom(Names(a.entries), a.entries, [err |-> "", text |-> <<>>])

(***************************************************************************)
(* The Text-Node Index: enumerate_text_nodes(hwpx) yields, for every part  *)
(* of content_files in the order of the dict and every element of the part *)
(* in document order, a node for the body text if it is non-empty, then a  *)
(* node for the tail if it is non-empty.  A node is [index, file, elem,    *)
(* attr, text]: the global sequence index from 0, the part path, the       *)
(* element (its position in the part), "text" or "tail", the string.       *)
(***************************************************************************)
TextNode(file, elem, attr, text) ==
    [index |-> 0, file |-> file, elem |-> elem, attr |-> attr, text |-> text]

\* NodesOfEls yielding the tail of an element before its body text
RECURSIVE NodesOfEls_TailFirst(_, _, _)
NodesOfEls_TailFirst(file, els, i) ==
    IF els = <<>> THEN <<>>
    ELSE (IF Head(els).tail # <<>> THEN <<TextNode(file, i, "tail", Head(els).tail)>> ELSE <<>>)
         \o (IF Head(els).text # <<>> THEN <<TextNode(file, i, "text", Head(els).text)>> ELSE <<>>)
         \o NodesOfEls_TailFirst(file, Tail(els), i + 1)

\* the nodes of one part; i is the position of Head(els) in the part
RECURSIVE NodesOfEls(_, _, _)
NodesOfEls(file, els, i) ==
    IF els = <<>> THEN <<>>
    ELSE (IF Head(els).text # <<>> THEN <<TextNode(file, i, "text", Head(els).text)>> ELSE <<>>)
         \o (IF Head(els).tail # <<>> THEN <<TextNode(file, i, "tail", Head(els).tail)>> ELSE <<>>)
         \o NodesOfEls(file, Tail(els), i + 1)

RECURSIVE NodesOfFiles(_)
NodesOfFiles(content_files) ==
    IF content_files = <<>> THEN <<>>
    ELSE NodesOfEls(Head(content_files)[1], Head(content_files)[2].els, 1)
         \o NodesOfFiles(Tail(content_files))

enumerate_text_nodes(p) ==
    LET nodes == NodesOfFiles(p.content_files) IN
    [k \in 1..Len(nodes) |-> [nodes[k] EXCEPT !.index = k - 1]]

(***************************************************************************)
(* The package with what the spec's Package holds beyond the reader's      *)
(* fields: the original text of every parsed XML part and the raw bytes of *)
(* every entry of the archive, as they were in the archive.                *)
(***************************************************************************)
RECURSIVE OriginalStrings(_, _, _)
OriginalStrings(names, a, d) ==
    IF names = <<>> THEN d
    ELSE LET n == Head(names) IN
         IF HasEntry(a, n) /\ EntryOf(a, n).data.t = "xml"
         THEN OriginalStrings(Tail(names), a, Put(d, n, PyStr(EntryOf(a, n).data)))
         ELSE OriginalStrings(Tail(names), a, d)

AllFiles(a) == [i \in 1..Len(a) |-> <<a[i].name, PyBytes(a[i].data)>>]

Captured(p, a) ==
    [p EXCEPT !.original_xml_strings =
                  Attr(OriginalStrings(CoreNames \o KeySeq(p.content_files), a, <<>>)),
              !.all_files = Attr(AllFiles(a))]

(***************************************************************************)
(* State:                                                                  *)
(*   archive  the archive on disk the operations read                      *)
(*   hwpx     the package object the caller holds                          *)
(*   out      the archive the last operation wrote (each call writes to a  *)
(*            fresh output path), NoOut when it wrote none                 *)
(*   err      the exception the last operation raised, "" when it returned *)
(*   op       the last operation and its arguments                         *)
(*   ret      what the last operation returned                             *)
(*   nsmap    ElementTree's prefix table of the process                    *)
(*   log      the records the last operation passed to logging.warning     *)
(***************************************************************************)
Op(fn, orig, use_compatible, arg) ==
    [fn |-> fn, orig |-> orig, use_compatible |-> use_compatible, arg |-> arg,
     search_text |-> <<>>, replace_text |-> <<>>, case_sensitive |-> TRUE, index |-> 0]

\* a returned value: None, an int, a package (held in hwpx), a str; or
\* "raised" when the call did not return
Ret(t, n) == [t |-> t, n |-> n, v |-> <<>>]

\* a returned sequence
RetSeq(v) == [t |-> "list", n |-> Len(v), v |-> v]

Returned(e, t, n) == IF e = "" THEN Ret(t, n) ELSE Ret("raised", 0)

InitWith(archives) ==
    /\ archive \in archives
    /\ hwpx = NoPkg
    /\ out = NoOut
    /\ err = ""
    /\ op = Op("init", "none", FALSE, "")
    /\ ret = Ret("None", 0)
    /\ nsmap = DEFAULT_NAMESPACE_MAP
    /\ log = <<>>

Init == InitWith(Archives)

\* hwpx = HWPXReader.read(path)
Read ==
    \E r \in {HWPXReader_read(archive)} :
    /\ hwpx' = IF r.err = "" THEN Pkg(r.p) ELSE NoPkg
    /\ err' = r.err
    /\ out' = NoOut
    /\ log' = <<>>
    /\ op' = Op("read", "none", FALSE, "")
    /\ ret' = Returned(r.err, "HWPXFile", 0)
    /\ UNCHANGED <<archive, nsmap>>

\* the caller completes the package the reader returned
Capture ==
    /\ hwpx.ok
    /\ ~hwpx.p.all_files.has
    /\ hwpx' = Pkg(Captured(hwpx.p, archive))
    /\ err' = ""
    /\ out' = NoOut
    /\ log' = <<>>
    /\ op' = Op("capture", "none", FALSE, "")
    /\ ret' = Ret("None", 0)
    /\ UNCHANGED <<archive, nsmap>>

\* modify_hwpx_text(input_path, output_path, modifier_func): read, transform
\* loop, _save_modified_hwpx(hwpx, output_path, input_path); [err, p, out,
\* table]: the exception raised ("" when it returned None), the package
\* it built, the archive it wrote and the prefix table it leaves
modify_hwpx_text(a, f, table) ==
    LET r == HWPXReader_read(a)
        p == ModifyLoop(f, r.p)
        registered == register_hwpx_namespaces(table)
        s == TextModifier_save(p, a, "source", registered)
    IN  IF r.err # ""
        THEN [err |-> r.err, ok |-> FALSE, p |-> HWPXFile, out |-> NoOut, table |-> table]
        ELSE [err |-> s.err, ok |-> TRUE, p |-> p, out |-> s.out, table |-> registered]

ModifyHwpxText(kind) ==
    \E m \in {modify_hwpx_text(archive, ModifierFunc(kind), nsmap)} :
    /\ hwpx' = [ok |-> m.ok, p |-> m.p]
    /\ err' = m.err
    /\ out' = m.out
    /\ log' = <<>>
    /\ op' = Op("modify_hwpx_text", "source", FALSE, kind)
    /\ ret' = Returned(m.err, "None", 0)
    /\ nsmap' = m.table
    /\ UNCHANGED archive

\* replace_text_in_hwpx(input_path, output_path, search_text, replace_text,
\* case_sensitive): modify_hwpx_text with the replacer, then return
\* replace_count
ReplaceTextInHwpx(search_text, replace_text, case_sensitive) ==
    LET f == Replacer(search_text, replace_text, case_sensitive) IN
    \E m \in {modify_hwpx_text(archive, f, nsmap)},
       replace_count \in {ReplaceCount(f, HWPXReader_read(archive).p.content_files)} :
        /\ hwpx' = [ok |-> m.ok, p |-> m.p]
        /\ err' = m.err
        /\ out' = m.out
        /\ log' = <<>>
        /\ op' = [Op("replace_text_in_hwpx", "source", FALSE, "replacer") EXCEPT
                     !.search_text = search_text, !.replace_text = replace_text,
                     !.case_sensitive = case_sensitive]
        /\ ret' = Returned(m.err, "int", replace_count)
        /\ nsmap' = m.table
        /\ UNCHANGED archive

\* the package with the string a text node refers to replaced, and the
\* part of the node marked modified
SetNode(p, node, new_text) ==
    LET tree == Get(p.content_files, node.file)
        elem == tree.els[node.elem]
        new_elem == IF node.attr = "text" THEN [elem EXCEPT !.text = new_text]
                    ELSE [elem EXCEPT !.tail = new_text]
    IN  [p EXCEPT !.content_files =
                      Put(@, node.file, [tree EXCEPT !.els[node.elem] = new_elem]),
                  !.modified_files = Attr((IF @.has THEN @.d ELSE {}) \cup {node.file})]

\* modify_selected_text(input_path, output_path, {index: new_text}): read,
\* replace the string of the node the enumeration numbers index (a key no
\* node has is skipped), save as modify_hwpx_text does, return the number
\* of nodes replaced; [err, ok, p, out, table, count]
modify_selected_text(a, index, new_text, table) ==
    LET r == HWPXReader_read(a)
        nodes == enumerate_text_nodes(r.p)
        matched == index \in 0..(Len(nodes) - 1)
        p0 == [r.p EXCEPT !.modified_files = Attr(IF @.has THEN @.d ELSE {})]
        p == IF matched THEN SetNode(p0, nodes[index + 1], new_text) ELSE p0
        registered == register_hwpx_namespaces(table)
        s == TextModifier_save(p, a, "source", registered)
    IN  IF r.err # ""
        THEN [err |-> r.err, ok |-> FALSE, p |-> HWPXFile, out |-> NoOut, table |-> table,
              count |-> 0]
        ELSE [err |-> s.err, ok |-> TRUE, p |-> p, out |-> s.out, table |-> registered,
              count |-> IF matched THEN 1 ELSE 0]

\* the keys and the value of the replacement maps: the first node, a later
\* node, a key no node has
SelectedIndexes == {0, 2, 9}

NewTexts == {<<"X">>}

ModifySelectedText(index, new_text) ==
    \E m \in {modify_selected_text(archive, index, new_text, nsmap)} :
    /\ hwpx' = [ok |-> m.ok, p |-> m.p]
    /\ err' = m.err
    /\ out' = m.out
    /\ log' = <<>>
    /\ op' = [Op("modify_selected_text", "source", FALSE, "") EXCEPT
                 !.index = index, !.replace_text = new_text]
    /\ ret' = Returned(m.err, "int", m.count)
    /\ nsmap' = m.table
    /\ UNCHANGED archive

\* save_modified_hwpx_compatible(hwpx, output_path, original_path)
SaveCompatible(orig) ==
    /\ hwpx.ok
    /\ orig # "none"
    /\ \E s \in {save_modified_hwpx_compatible(hwpx.p, archive, orig, nsmap)} :
          /\ err' = s.err
          /\ out' = s.out
          /\ ret' = Returned(s.err, "None", 0)
    /\ log' = <<>>
    /\ op' = Op("save_modified_hwpx_compatible", orig, FALSE, "")
    /\ UNCHANGED <<archive, hwpx, nsmap>>

\* writer.save_modified_hwpx(hwpx, output_path, original_path, use_compatible)
SaveWriter(orig, use_compatible) ==
    /\ hwpx.ok
    /\ \E registered \in {register_hwpx_namespaces(nsmap)} :
       \E s \in {save_modified_hwpx(hwpx.p, archive, orig, use_compatible, registered)} :
        /\ err' = s.err
        /\ out' = s.out
        /\ log' = s.log
        /\ op' = Op("save_modified_hwpx", orig, use_compatible, "")
        /\ ret' = Returned(s.err, "None", 0)
        /\ nsmap' = registered
        /\ UNCHANGED <<archive, hwpx>>

\* text_modifier._save_modified_hwpx(hwpx, output_path, original_path)
SaveTextModifier(orig) ==
    /\ hwpx.ok
    /\ \E registered \in {register_hwpx_namespaces(nsmap)} :
       \E s \in {TextModifier_save(hwpx.p, archive, orig, registered)} :
        /\ err' = s.err
        /\ out' = s.out
        /\ log' = <<>>
        /\ op' = Op("_save_modified_hwpx", orig, FALSE, "")
        /\ ret' = Returned(s.err, "None", 0)
        /\ nsmap' = registered
        /\ UNCHANGED <<archive, hwpx>>

\* HwpxWriter(..., files, mimetype).write(output) on the serialized trees
\* of the package, as tests/test_reader_writer.py calls it; serializing a
\* structural part that is None raises AttributeError (None.getroot())
WriteHwpxWriter(arg) ==
    LET p == hwpx.p IN
    /\ hwpx.ok
    /\ IF \/ p.version_xml.tag = "None" \/ p.container_xml.tag = "None"
          \/ p.manifest_xml.tag = "None" \/ p.content_hpf.tag = "None"
       THEN /\ err' = "AttributeError"
            /\ out' = NoOut
            /\ ret' = Ret("raised", 0)
       ELSE \E content_hpf \in {ET_tostring_nodecl(p.content_hpf, nsmap)} :
            \E order \in SetOrders(Referenced(content_hpf)) :
            \E s \in {HwpxWriter_write(ET_tostring_nodecl(p.version_xml, nsmap),
                                       ET_tostring_nodecl(p.container_xml, nsmap),
                                       ET_tostring_nodecl(p.manifest_xml, nsmap),
                                       content_hpf, SerializedFiles(p.content_files, nsmap),
                                       WriterMimetype(arg), order)} :
                 /\ err' = s.err
                 /\ out' = s.out
                 /\ ret' = Returned(s.err, "None", 0)
    /\ log' = <<>>
    /\ op' = Op("HwpxWriter.write", "none", FALSE, arg)
    /\ UNCHANGED <<archive, hwpx, nsmap>>

\* list(enumerate_text_nodes(hwpx)) on the package the caller holds
EnumerateTextNodes ==
    /\ hwpx.ok
    /\ ret' = RetSeq(enumerate_text_nodes(hwpx.p))
    /\ err' = ""
    /\ out' = NoOut
    /\ log' = <<>>
    /\ op' = Op("enumerate_text_nodes", "none", FALSE, "")
    /\ UNCHANGED <<archive, hwpx, nsmap>>

\* the search and replacement strings replace_text_in_hwpx is called with
SearchTexts == {<<"a">>, <<"a", "b">>, <<"b", "B">>}

ReplaceTexts == {<<"X">>}

Next ==
    \/ Read
    \/ Capture
    \/ \E kind \in Modifiers : ModifyHwpxText(kind)
    \/ \E search_text \in SearchTexts, replace_text \in ReplaceTexts, case_sensitive \in BOOLEAN :
          ReplaceTextInHwpx(search_text, replace_text, case_sensitive)
    \/ \E orig \in OrigPaths : SaveCompatible(orig)
    \/ \E orig \in OrigPaths, use_compatible \in BOOLEAN : SaveWriter(orig, use_compatible)
    \/ \E orig \in OrigPaths : SaveTextModifier(orig)
    \/ \E arg \in {"default", "MIMETYPE"} : WriteHwpxWriter(arg)
    \/ EnumerateTextNodes
    \/ \E index \in SelectedIndexes, new_text \in NewTexts : ModifySelectedText(index, new_text)

Spec == Init /\ [][Next]_vars

(***************************************************************************)
(* The saves next to what other code of the process does between them:     *)
(* registrations in the prefix table, and assignments to the fields of the *)
(* package.                                                                *)
(***************************************************************************)
\* the global_nsmap dicts (prefix -> uri, in insertion order)
\* apply_namespace_to_modified_xml is called with
GlobalNsMaps ==
    { << <<"cx", NS_CUSTOM>>, <<"hp", NS_OTHER>> >>,
      << <<"p", NS_HP>> >>,
      << <<"", NS_HS>>, <<"ns1", NS_CUSTOM>> >> }

\* lines 153-158: the registrations, up to the first prefix
\* ET.register_namespace rejects; [err, table]
RECURSIVE RegisterGlobal(_, _)
RegisterGlobal(global_nsmap, r) ==
    IF global_nsmap = <<>> \/ r.err # "" THEN r
    ELSE IF Head(global_nsmap)[1] \in Placeholders THEN [r EXCEPT !.err = "ValueError"]
    ELSE RegisterGlobal(Tail(global_nsmap),
             [r EXCEPT !.table = register_namespace(@, Head(global_nsmap)[1],
                                                    Head(global_nsmap)[2])])

\* apply_namespace_to_modified_xml(modified_tree, element_namespaces,
\* global_nsmap): registers the prefixes of global_nsmap and returns the
\* serialized tree as a str
ApplyNamespaceToModifiedXml(global_nsmap) ==
    \E r \in {RegisterGlobal(global_nsmap, [err |-> "", table |-> nsmap])} :
    /\ nsmap' = r.table
    /\ err' = r.err
    /\ ret' = Returned(r.err, "str", 0)
    /\ out' = NoOut
    /\ log' = <<>>
    /\ op' = Op("apply_namespace_to_modified_xml", "none", FALSE, "")
    /\ UNCHANGED <<archive, hwpx>>

\* a structural part of the package set to None by its owner
\* (hwpx.version_xml = None, ...); one part of a package at most
SetPartNone(n) ==
    /\ hwpx.ok
    /\ \A m \in CoreSet :
          (CASE m = N_VERSION -> hwpx.p.version_xml
             [] m = N_CONTAINER -> hwpx.p.container_xml
             [] m = N_MANIFEST -> hwpx.p.manifest_xml
             [] OTHER -> hwpx.p.content_hpf).tag # "None"
    /\ hwpx' = [hwpx EXCEPT !.p =
                   CASE n = N_VERSION -> [@ EXCEPT !.version_xml = None]
                     [] n = N_CONTAINER -> [@ EXCEPT !.container_xml = None]
                     [] n = N_MANIFEST -> [@ EXCEPT !.manifest_xml = None]
                     [] OTHER -> [@ EXCEPT !.content_hpf = None]]
    /\ err' = ""
    /\ ret' = Ret("None", 0)
    /\ out' = NoOut
    /\ log' = <<>>
    /\ op' = Op("set_part_none", "none", FALSE, n)
    /\ UNCHANGED <<archive, nsmap>>

\* the document with a second entry under the name of its body part and
\* with an empty entry
DupArchive ==
    TwoPartDoc \o << Entry(N_SEC0, Xml("src", SecTree(<<El(<<"b">>, <<>>)>>)), "stored"),
                     Entry(N_PREVIEW, Text(<<>>), "stored") >>

EnvArchives == NsArchives \cup {TwoPartDoc, Without(TwoPartDoc, N_MANIFEST), DupArchive}

(***************************************************************************)
(* blank_file_maker.py                                                     *)
(***************************************************************************)
N_SETTINGS == "settings.xml"

NS_HA == "http://www.hancom.co.kr/hwpml/2011/app"

\* VERSION_XML: <hv:HCFVersion .../>
BLANK_VERSION == Xml("src", Tree(<<Node("hv", NS_HV, "HCFVersion", <<>>, <<>>, "")>>, <<>>, <<>>, ""))

\* MANIFEST_XML: <odf:manifest/>
BLANK_MANIFEST == Xml("src", Tree(<<Node("odf", NS_ODF, "manifest", <<>>, <<>>, "")>>, <<>>, <<>>, ""))

\* CONTAINER_XML: one rootfile, Contents/content.hpf
BLANK_CONTAINER ==
    Xml("src", Tree(<<Node("ocf", NS_OCF, "container", <<>>, <<>>, ""),
                      Node("ocf", NS_OCF, "rootfiles", <<>>, <<>>, ""),
                      Node("ocf", NS_OCF, "rootfile", <<>>, <<>>, "")>>, <<>>,
                    <<Rootfile(N_HPF, PACKAGE_MEDIA)>>, ""))

\* HEADER_XML: <hh:head xmlns:ha=... xmlns:hp=...><hh:mainInfo/></hh:head>;
\* the prefix hh is not declared, the text is not well-formed XML
BLANK_HEADER == Bad

\* SECTION_XML: <hs:sec><hp:p><hp:run><hp:t/></hp:run></hp:p></hs:sec>
BLANK_SECTION ==
    Xml("src", Tree(<<Node("hs", NS_HS, "sec", <<>>, <<>>, ""),
                      Node("hp", NS_HP, "p", <<>>, <<>>, ""),
                      Node("hp", NS_HP, "run", <<>>, <<>>, ""),
                      Node("hp", NS_HP, "t", <<>>, <<>>, "")>>, <<>>, <<>>, ""))

\* SETTINGS_XML: <ha:HWPApplicationSetting><ha:CaretPosition/></...>
BLANK_SETTINGS ==
    Xml("src", Tree(<<Node("ha", NS_HA, "HWPApplicationSetting", <<>>, <<>>, ""),
                      Node("ha", NS_HA, "CaretPosition", <<>>, <<>>, "")>>, <<>>, <<>>, ""))

\* CONTENT_TEMPLATE: the opf namespace with a trailing slash, three items
BLANK_CONTENT ==
    Xml("src", HpfTree(<<Item(N_HEADER, XML_MEDIA), Item(N_SEC0, XML_MEDIA),
                         Item(N_SETTINGS, XML_MEDIA)>>, "slash"))

\* make_blank(path): ZipFile(path, "w", ZIP_DEFLATED) and eight
\* zf.writestr(name, text) calls, every entry deflated
make_blank ==
    << Entry(N_MIME, Text(MIMETYPE), "deflated"),
       Entry(N_VERSION, BLANK_VERSION, "deflated"),
       Entry(N_MANIFEST, BLANK_MANIFEST, "deflated"),
       Entry(N_CONTAINER, BLANK_CONTAINER, "deflated"),
       Entry(N_HPF, BLANK_CONTENT, "deflated"),
       Entry(N_HEADER, BLANK_HEADER, "deflated"),
       Entry(N_SEC0, BLANK_SECTION, "deflated"),
       Entry(N_SETTINGS, BLANK_SETTINGS, "deflated") >>

MakeBlank ==
    /\ out' = Written(make_blank)
    /\ err' = ""
    /\ ret' = Ret("None", 0)
    /\ log' = <<>>
    /\ op' = Op("make_blank", "none", FALSE, "")
    /\ UNCHANGED <<archive, hwpx, nsmap>>

(***************************************************************************)
(* hwpxlib/archive.py: HwpxArchive                                         *)
(***************************************************************************)
\* HwpxArchive.read: {name: zf.read(name) for name in zf.namelist()}; a
\* name the archive has twice is one key, zf.read finds its last entry
RECURSIVE ReadNames(_, _, _)
ReadNames(names, entries, files) ==
    IF names = <<>> THEN files
    ELSE ReadNames(Tail(names), entries,
                   Put(files, Head(names), PyBytes(EntryOf(entries, Head(names)).data)))

HwpxArchive_read(entries) == ReadNames(Names(entries), entries, <<>>)

\* HwpxArchive_write leaving out the entries that have no bytes
HwpxArchive_write_SkipEmpty(files) ==
    LET kept == SelectSeq(files, LAMBDA f : f[2].v # Text(<<>>)) IN
    [i \in 1..Len(kept) |-> ZipEntry(kept[i][1], kept[i][2], "stored")]

\* HwpxArchive.write: ZipFile(path, "w") stores, zf.writestr(name, data)
\* for each item of files
HwpxArchive_write(files) ==
    [i \in 1..Len(files) |-> ZipEntry(files[i][1], files[i][2], "stored")]

\* original = HwpxArchive.read(path); original.write(out_path), as
\* tests/test_roundtrip.py does
HwpxArchiveCopy ==
    /\ out' = Written(HwpxArchive_write(HwpxArchive_read(archive)))
    /\ err' = ""
    /\ ret' = Ret("None", 0)
    /\ log' = <<>>
    /\ op' = Op("HwpxArchive.write", "none", FALSE, "")
    /\ UNCHANGED <<archive, hwpx, nsmap>>

InitEnv == InitWith(EnvArchives)

NextEnv ==
    \/ Read
    \/ Capture
    \/ \E kind \in {"upper", "same"} : ModifyHwpxText(kind)
    \/ \E orig \in {"source"} : SaveCompatible(orig)
    \/ \E orig \in {"source", "none"}, use_compatible \in BOOLEAN : SaveWriter(orig, use_compatible)
    \/ \E orig \in {"source", "none"} : SaveTextModifier(orig)
    \/ \E global_nsmap \in GlobalNsMaps : ApplyNamespaceToModifiedXml(global_nsmap)
    \/ \E n \in CoreSet : SetPartNone(n)
    \/ HwpxArchiveCopy
    \/ MakeBlank

SpecEnv == InitEnv /\ [][NextEnv]_vars

(***************************************************************************)
(* Properties.                                                             *)
(***************************************************************************)
\* the functions that save a package
SaveFns ==
    {"save_modified_hwpx_compatible", "save_modified_hwpx", "_save_modified_hwpx",
     "modify_hwpx_text"}

\* the last operation was a save that returned and wrote an archive
Saved == op.fn \in SaveFns /\ err = "" /\ out.exists

\* the package as HWPXReader.read returns it for the archive
Parsed == HWPXReader_read(archive).p

\* C1: for any readable archive A with no edits applied, saving the parsed
\* package with A as the compression reference produces an archive with
\* the same entry names in the same order, the same content bytes and the
\* same compression methods as A.
C1_RoundTripIdentity ==
    ( /\ op.fn \in SaveFns
      /\ op.orig = "source"
      /\ hwpx.ok
      /\ hwpx.p.modified_files.d = {}
      /\ hwpx.p.content_files = Parsed.content_files )
    => (err = "" /\ out = Written(archive))

\* C2: in every archive a writer of the repository produces, the first
\* entry is named mimetype, is stored uncompressed and holds the content
\* type string the reader expects.
C2_MimetypeFirst ==
    out.exists => out.entries[1] = Entry(N_MIME, Text(MIMETYPE), "stored")

\* C4: after HWPXReader.read returns a package, the package holds the
\* original text of each structural part and of every parsed content part
\* exactly as it was in the archive (original_xml_strings), and the entries
\* of the archive (all_files), so that the save functions can run on it.
C4_ReaderKeepsOriginalText ==
    (op.fn = "read" /\ hwpx.ok) =>
        /\ hwpx.p.original_xml_strings.has
        /\ hwpx.p.all_files.has
        /\ \A n \in CoreSet \cup Keys(hwpx.p.content_files) :
              HasEntry(archive, n) =>
                 /\ HasKey(hwpx.p.original_xml_strings.d, n)
                 /\ Get(hwpx.p.original_xml_strings.d, n) = PyStr(EntryOf(archive, n).data)

\* C6: HWPXReader.read raises the mimetype error exactly when the mimetype
\* entry is missing or its content, with trailing whitespace (only)
\* trimmed, is not application/hwp+zip.
C6_MimetypeRejectedUnlessExact ==
    op.fn = "read" =>
        ( (err = "ValueError") <=>
          ( \/ ~HasEntry(archive, N_MIME)
            \/ RStrip(EntryOf(archive, N_MIME).data.toks) # MIMETYPE ) )

\* C5: after modify_hwpx_text has applied its transform, a content part
\* is in modified_files if and only if the body or the tail text of at
\* least one of its elements differs from its value at parse time.
TextDiffers(tree, parsedTree) ==
    \E i \in 1..Len(tree.els) :
        \/ tree.els[i].text # parsedTree.els[i].text
        \/ tree.els[i].tail # parsedTree.els[i].tail

C5_ModifiedIffTextDiffers ==
    (op.fn = "modify_hwpx_text" /\ hwpx.ok) =>
        /\ hwpx.p.modified_files.has
        /\ hwpx.p.modified_files.d \subseteq Keys(hwpx.p.content_files)
        /\ \A name \in Keys(hwpx.p.content_files) :
              (name \in hwpx.p.modified_files.d)
                 <=> TextDiffers(Get(hwpx.p.content_files, name),
                                 Get(Parsed.content_files, name))

\* a transform that changed one part and left another part, whose text it
\* was applied to, as it was
C5_Witness ==
    /\ op.fn = "modify_hwpx_text" /\ hwpx.ok
    /\ op.arg # "same"
    /\ \E n1, n2 \in Keys(hwpx.p.content_files) :
          /\ n1 \in hwpx.p.modified_files.d
          /\ n2 \notin hwpx.p.modified_files.d
          /\ \E i \in 1..Len(Get(hwpx.p.content_files, n2).els) :
                Get(hwpx.p.content_files, n2).els[i].text # <<>>

\* the compression method the reference archive records for a name
RecordedCtype(name) ==
    IF op.orig = "source" /\ HasEntry(archive, name)
    THEN EntryOf(archive, name).ctype
    ELSE "deflated"

\* C8: in a saved archive every entry other than mimetype uses the
\* compression method recorded for the entry of the same name in the source
\* archive, deflated when the source has no such entry or could not be
\* read; mimetype is stored whatever the source recorded for it.
C8_CompressionFromSource ==
    (op.fn \in SaveFns /\ out.exists) =>
        \A i \in 1..Len(out.entries) :
            out.entries[i].ctype =
                IF out.entries[i].name = N_MIME THEN "stored"
                ELSE RecordedCtype(out.entries[i].name)

\* a save against a source whose mimetype is deflated and whose other
\* entries are recorded with three different methods
C8_Witness ==
    /\ Saved
    /\ op.orig = "source"
    /\ EntryOf(archive, N_MIME).ctype = "deflated"
    /\ {out.entries[i].ctype : i \in 2..Len(out.entries)} = {"stored", "deflated", "bzip2"}

\* the one content part in the modified-parts set, "" when there is not
\* exactly one
OnlyModified ==
    IF /\ hwpx.p.modified_files.has
       /\ Cardinality(hwpx.p.modified_files.d) = 1
       /\ hwpx.p.modified_files.d \subseteq Keys(hwpx.p.content_files)
    THEN CHOOSE n \in hwpx.p.modified_files.d : TRUE
    ELSE ""

SourceBytes(e) == HasEntry(archive, e.name) /\ e.data = EntryOf(archive, e.name).data

OrderOK ==
    out.exists =>
        /\ Len(out.entries) >= 5
        /\ SubSeq(Names(out.entries), 1, 5) = <<N_MIME>> \o CoreNames

\* the same write of the same package run again, both runs returning
SameWriteAgain ==
    /\ op' = op /\ hwpx' = hwpx /\ archive' = archive
    /\ out.exists /\ out'.exists
    /\ err = "" /\ err' = ""

\* C7: every save emits mimetype first, then version.xml,
\* META-INF/container.xml, META-INF/manifest.xml, Contents/content.hpf in
\* that sequence, then the remaining parts in an order that is a function
\* of the package: the same package always gives the same order.
C7_EntryOrder ==
    [][OrderOK' /\ (SameWriteAgain => Names(out'.entries) = Names(out.entries))]_vars

\* C9: for each of the four structural parts the writer emits the original
\* captured text, unless the part is in the modified-parts set: then it
\* emits the part re-serialized from its tree.
CoreTree(p, n) ==
    CASE n = N_VERSION -> p.version_xml
      [] n = N_CONTAINER -> p.container_xml
      [] n = N_MANIFEST -> p.manifest_xml
      [] OTHER -> p.content_hpf

C9_StructuralPartChoice ==
    Saved =>
        \A n \in CoreSet :
            EntryOf(out.entries, n).data =
                IF InModified(hwpx.p, n)
                THEN ET_tostring(CoreTree(hwpx.p, n), nsmap).v
                ELSE Get(hwpx.p.original_xml_strings.d, n).v

Readable == HWPXReader_read(archive).err = ""

\* the number of occurrences of the search text in the text nodes (body
\* and tail) of all content parts of the source
RECURSIVE OccurrencesInEls(_, _)
OccurrencesInEls(els, s) ==
    IF els = <<>> THEN 0
    ELSE CountAll(Head(els).text, s, TRUE) + CountAll(Head(els).tail, s, TRUE)
         + OccurrencesInEls(Tail(els), s)

RECURSIVE Occurrences(_, _)
Occurrences(content_files, s) ==
    IF content_files = <<>> THEN 0
    ELSE OccurrencesInEls(Head(content_files)[2].els, s) + Occurrences(Tail(content_files), s)

\* C11: replace_text_in_hwpx, called on a readable archive with a literal
\* case-sensitive search string, returns the number of occurrences of the
\* string in the body and tail text of all content parts (0 when there is
\* none).
C11_ReplaceReturnsCount ==
    (op.fn = "replace_text_in_hwpx" /\ op.case_sensitive /\ Readable) =>
        ret = Ret("int", Occurrences(Parsed.content_files, op.search_text))

\* C12: after replace_text_in_hwpx has replaced S by a string that does
\* not contain or re-create S, the text extract_text reads from the
\* written archive has no occurrence of S, occurrences spanning two
\* adjacent text nodes included.
C12_NoOccurrenceLeft ==
    (op.fn = "replace_text_in_hwpx" /\ Readable) =>
        /\ extract_text(out).err = ""
        /\ CountAll(extract_text(out).text, op.search_text, op.case_sensitive) = 0

\* the number of text nodes whose value in tree differs from parsedTree
RECURSIVE ChangedInEls(_, _)
ChangedInEls(els, parsedEls) ==
    IF els = <<>> THEN 0
    ELSE (IF Head(els).text # Head(parsedEls).text THEN 1 ELSE 0)
         + (IF Head(els).tail # Head(parsedEls).tail THEN 1 ELSE 0)
         + ChangedInEls(Tail(els), Tail(parsedEls))

RECURSIVE ChangedNodes(_, _)
ChangedNodes(content_files, parsed_files) ==
    IF content_files = <<>> THEN 0
    ELSE ChangedInEls(Head(content_files)[2].els, Head(parsed_files)[2].els)
         + ChangedNodes(Tail(content_files), Tail(parsed_files))

\* C13: modify_hwpx_text, called on a readable archive, returns to its
\* caller the number of text nodes (body or tail) whose value the
\* transform changed.
C13_ModifyReturnsChangedCount ==
    (op.fn = "modify_hwpx_text" /\ Readable) =>
        ret = Ret("int", ChangedNodes(hwpx.p.content_files, Parsed.content_files))

\* the entry is in the source archive and is not well-formed XML
NotWellFormed(name) == HasEntry(archive, name) /\ EntryOf(archive, name).data.t # "xml"

\* the path of the content descriptor the container of the source names
DescriptorPath == ParseContainer(ReadXml(archive, N_CONTAINER))[1]

\* C14: when META-INF/container.xml, or the content descriptor the
\* container names, is in the archive and is not well-formed XML,
\* HWPXReader.read raises and returns no package.
C14_MalformedContainerOrDescriptorFatal ==
    ( /\ op.fn = "read"
      /\ \/ NotWellFormed(N_CONTAINER)
         \/ (~NotWellFormed(N_CONTAINER) /\ DescriptorPath # "" /\ NotWellFormed(DescriptorPath)) )
    => (err # "" /\ ~hwpx.ok /\ ret.t = "raised")

\* a read that got past the mimetype check and the container and failed on
\* the descriptor
C14_Witness ==
    /\ op.fn = "read"
    /\ CheckMimetype(archive) = ""
    /\ ~NotWellFormed(N_CONTAINER)
    /\ NotWellFormed(N_HPF)
    /\ err = "ParseError" /\ ~hwpx.ok

\* the items the descriptor of the source lists, when it can be parsed
ListedItems ==
    IF DescriptorPath # "" /\ HasEntry(archive, DescriptorPath) /\ ~NotWellFormed(DescriptorPath)
    THEN {it \in Range(EntryOf(archive, DescriptorPath).data.tree.items) : it.href # ""}
    ELSE {}

\* mimetype, the three structural parts and the descriptor are all right
StructureWellFormed ==
    /\ CheckMimetype(archive) = ""
    /\ ~NotWellFormed(N_VERSION) /\ ~NotWellFormed(N_CONTAINER) /\ ~NotWellFormed(N_MANIFEST)
    /\ DescriptorPath # "" => ~NotWellFormed(DescriptorPath)

\* C15: when a part the descriptor lists with the XML media type is not
\* well-formed or is missing from the archive, HWPXReader.read returns a
\* package: the part is not in content_files and every other listed XML
\* part is.
C15_BadContentPartSkipped ==
    (op.fn = "read" /\ StructureWellFormed) =>
        /\ err = "" /\ hwpx.ok
        /\ \A it \in {x \in ListedItems : x.media = XML_MEDIA} :
              HasKey(hwpx.p.content_files, it.href)
                 <=> (HasEntry(archive, it.href) /\ ~NotWellFormed(it.href))

\* the paths the source refers to as attachments, as binary parts, and as
\* charts (from the parts that were parsed)
AttachmentRefs ==
    IF HasEntry(archive, N_CONTAINER) /\ ~NotWellFormed(N_CONTAINER)
    THEN {r.path : r \in {x \in Range(EntryOf(archive, N_CONTAINER).data.tree.roots) :
                              x.media # PACKAGE_MEDIA /\ x.path # ""}}
    ELSE {}

BinaryRefs == {it.href : it \in {x \in ListedItems : x.media # XML_MEDIA}}

ChartRefs ==
    UNION { {e.chart : e \in {x \in Range(hwpx.p.content_files[i][2].els) : x.chart # ""}} :
              i \in 1..Len(hwpx.p.content_files) }

AllMaps == Keys(hwpx.p.content_files) \cup Keys(hwpx.p.binary_files) \cup Keys(hwpx.p.charts)

\* the path is a key of the map, with the bytes of the archive entry
Loaded(d, path) == HasKey(d, path) /\ Get(d, path) = PyBytes(EntryOf(archive, path).data)

\* C16: on an archive whose mimetype and XML parts are all right,
\* HWPXReader.read returns a package whatever attachment, binary part or
\* chart the archive lacks: a referenced path that is absent is a key of
\* no map of the package, and one that is present is loaded, with the
\* bytes of its entry, into binary_files (attachments, binary parts) or
\* charts.
C16_MissingReferenceTolerated ==
    ( /\ op.fn = "read"
      /\ StructureWellFormed
      /\ \A it \in ListedItems : it.media = XML_MEDIA => ~NotWellFormed(it.href) )
    => /\ err = "" /\ hwpx.ok
       /\ \A path \in AttachmentRefs \cup BinaryRefs :
             IF HasEntry(archive, path) THEN Loaded(hwpx.p.binary_files, path)
             ELSE path \notin AllMaps
       /\ \A path \in ChartRefs :
             IF HasEntry(archive, path) THEN Loaded(hwpx.p.charts, path)
             ELSE path \notin AllMaps

\* a read of an archive that has one attachment, one image and one chart
\* and lacks another of each
C16_Witness ==
    /\ op.fn = "read" /\ hwpx.ok
    /\ AttachmentRefs = {N_PREVIEW, N_NO_PREVIEW}
    /\ BinaryRefs = {N_IMAGE, N_NO_IMAGE}
    /\ ChartRefs = {N_CHART, N_NO_CHART}
    /\ Keys(hwpx.p.binary_files) = {N_PREVIEW, N_IMAGE}
    /\ Keys(hwpx.p.charts) = {N_CHART}

\* C17: in every package HWPXReader.read returns, each href the
\* descriptor lists is a key of content_files or of binary_files, unless
\* the archive has no entry of that name.
C17_ManifestResolves ==
    (op.fn = "read" /\ hwpx.ok) =>
        \A it \in ListedItems :
            HasEntry(archive, it.href) =>
                it.href \in Keys(hwpx.p.content_files) \cup Keys(hwpx.p.binary_files)

\* a package whose descriptor lists an XML part and a binary part that are
\* in the archive, and a part that is not
C17_Witness ==
    /\ op.fn = "read" /\ hwpx.ok
    /\ \E x, y, z \in ListedItems :
          /\ HasKey(hwpx.p.content_files, x.href)
          /\ HasKey(hwpx.p.binary_files, y.href)
          /\ ~HasEntry(archive, z.href)

\* the entry of the output is a content part the save re-serialized from
\* its modified tree
Reserialized(e) ==
    /\ InModified(hwpx.p, e.name)
    /\ e.name \in Keys(hwpx.p.content_files) \ CoreSet
    /\ e.data.t = "xml" /\ e.data.form = "et"

\* C18: in a content part a save re-serialized from its modified tree,
\* every element is written with the prefix it has in the source part,
\* and none with a generated prefix (ns0, ns1, ...).
C18_PrefixesKept ==
    Saved =>
        \A i \in 1..Len(out.entries) :
            (Reserialized(out.entries[i]) /\ HasEntry(archive, out.entries[i].name)) =>
                LET written == out.entries[i].data.tree.els
                    source == EntryOf(archive, out.entries[i].name).data.tree.els
                IN  \A k \in 1..Len(written) :
                        /\ written[k].prefix = source[k].prefix
                        /\ written[k].prefix \notin Placeholders

\* the table binds each of the 18 prefixes of the format to its URI
AllBound(table) ==
    \A i \in 1..Len(HWPX_NAMESPACES) : <<HWPX_NAMESPACES[i][2], HWPX_NAMESPACES[i][1]>> \in table

\* the saves that go through writer.save_modified_hwpx or
\* text_modifier._save_modified_hwpx
RegisteringSaves == {"save_modified_hwpx", "_save_modified_hwpx", "modify_hwpx_text"}

\* C19: whatever registrations other code made before it, the prefix
\* table a save through save_modified_hwpx or _save_modified_hwpx
\* serializes with (the table it leaves) binds each of the 18 prefixes to
\* its URI; and registering the 18 prefixes in a table that has them
\* registered changes nothing.
C19_TableRegisteredAtSave ==
    /\ (op.fn \in RegisteringSaves /\ hwpx.ok) => AllBound(nsmap)
    /\ register_hwpx_namespaces(register_hwpx_namespaces(nsmap)) = register_hwpx_namespaces(nsmap)

\* a save that wrote an archive after other code had bound "cx" and had
\* taken the prefix "hp" for another URI
C19_Witness ==
    /\ op.fn \in {"save_modified_hwpx", "_save_modified_hwpx"}
    /\ Saved
    /\ <<NS_CUSTOM, "cx">> \in nsmap
    /\ \E i \in 1..Len(out.entries) : Reserialized(out.entries[i])

\* C20: a save of a package one of whose four structural trees is None
\* raises and writes no archive, whether or not the package holds the
\* original text of that part.
C20_MissingStructuralPartFatal ==
    ( /\ op.fn \in SaveFns
      /\ hwpx.ok
      /\ \E n \in CoreSet : CoreTree(hwpx.p, n).tag = "None" )
    => (err # "" /\ ret.t = "raised" /\ ~out.exists)

\* a save that raised on a package that holds all it needs but the tree
\* of a structural part, the text of the part included
C20_Witness ==
    /\ op.fn \in SaveFns /\ hwpx.ok
    /\ hwpx.p.all_files.has /\ hwpx.p.original_xml_strings.has
    /\ \E n \in CoreSet :
          /\ CoreTree(hwpx.p, n).tag = "None"
          /\ HasKey(hwpx.p.original_xml_strings.d, n)
    /\ err = "AttributeError" /\ ~out.exists

(***************************************************************************)
(* Error propagation of the save functions.                                *)
(***************************************************************************)
\* what save_modified_hwpx_compatible does for the package and the
\* original_path of the last call
CompatResult == save_modified_hwpx_compatible(hwpx.p, archive, op.orig, nsmap)

\* C21: an error raised while saving aborts the save and reaches the caller
\* as it was raised: when the compatible writer raises inside
\* save_modified_hwpx, the call raises that error, leaves what the
\* compatible writer left, and no other writer runs.
C21_SaveErrorPropagates ==
    (op.fn = "save_modified_hwpx" /\ op.use_compatible /\ op.orig # "none"
        /\ CompatResult.err # "")
    => /\ err = CompatResult.err
       /\ out = CompatResult.out
       /\ log = <<>>

(***************************************************************************)
(* The Text-Node Index.                                                    *)
(***************************************************************************)
\* the string a node refers to in the package
SlotOf(content_files, file, elem, attr) ==
    IF attr = "text" THEN Get(content_files, file).els[elem].text
    ELSE Get(content_files, file).els[elem].tail

PartPos(content_files, file) ==
    CHOOSE i \in 1..Len(content_files) : content_files[i][1] = file

\* node a comes before node b: an earlier part, or the same part and an
\* earlier element, or the same element and its body text before its tail
NodeBefore(content_files, a, b) ==
    \/ PartPos(content_files, a.file) < PartPos(content_files, b.file)
    \/ /\ a.file = b.file
       /\ \/ a.elem < b.elem
          \/ a.elem = b.elem /\ a.attr = "text" /\ b.attr = "tail"

\* C22: the enumeration is a function of the package alone, so two calls on
\* the same unmutated package yield the same sequence: its nodes are
\* numbered from 0, each is a non-empty body text or tail of an element of
\* a content part with its current string, every such string is there, and
\* they are ordered by part (the order of the content-part map), then by
\* element in document order, body text before tail.
C22_EnumerationDeterministic ==
    op.fn = "enumerate_text_nodes" =>
        LET v == ret.v
            cf == hwpx.p.content_files
        IN  /\ \A k \in 1..Len(v) :
                  /\ v[k].index = k - 1
                  /\ HasKey(cf, v[k].file)
                  /\ v[k].elem \in 1..Len(Get(cf, v[k].file).els)
                  /\ v[k].attr \in {"text", "tail"}
                  /\ v[k].text # <<>>
                  /\ v[k].text = SlotOf(cf, v[k].file, v[k].elem, v[k].attr)
            /\ \A j \in 1..Len(v), k \in 1..Len(v) : j < k => NodeBefore(cf, v[j], v[k])
            /\ \A i \in 1..Len(cf) : \A e \in 1..Len(cf[i][2].els) : \A attr \in {"text", "tail"} :
                  SlotOf(cf, cf[i][1], e, attr) # <<>>
                  => \E k \in 1..Len(v) :
                        v[k].file = cf[i][1] /\ v[k].elem = e /\ v[k].attr = attr

\* an enumeration over two parts, with an element that has a body text and
\* a tail and an element that has no tail
C22_Witness ==
    /\ op.fn = "enumerate_text_nodes"
    /\ \E j \in 1..Len(ret.v), k \in 1..Len(ret.v) :
          /\ ret.v[j].file # ret.v[k].file
          /\ \E m \in 1..Len(ret.v) :
                ret.v[m].file = ret.v[k].file /\ ret.v[m].elem = ret.v[k].elem
                /\ ret.v[k].attr = "text" /\ ret.v[m].attr = "tail"
    /\ \E i \in 1..Len(hwpx.p.content_files) :
          \E e \in 1..Len(hwpx.p.content_files[i][2].els) :
             hwpx.p.content_files[i][2].els[e].tail = <<>>

\* C23: modify_selected_text with a replacement map {k: V}, k being the
\* index of one of the N text nodes of a readable document, returns 1, and
\* the enumeration of the archive it wrote has N nodes, node k with the
\* text V and every other node with its text of before the edit.
C23_TargetedEditPrecise ==
    LET before == enumerate_text_nodes(Parsed)
        reread == HWPXReader_read(out.entries)
        after == enumerate_text_nodes(reread.p)
    IN  (op.fn = "modify_selected_text" /\ Readable /\ op.index < Len(before)) =>
            /\ ret = Ret("int", 1)
            /\ out.exists
            /\ reread.err = ""
            /\ Len(after) = Len(before)
            /\ \A j \in 1..Len(before) :
                  after[j].text = IF j = op.index + 1 THEN op.replace_text ELSE before[j].text

(***************************************************************************)
(* Round trips.                                                            *)
(***************************************************************************)
\* C24: HwpxArchive.read of an archive, HwpxArchive.write of what was read
\* and HwpxArchive.read of what was written give the same set of entry
\* names as the first read and, for every name, the same bytes.
C24_ArchiveRoundTrip ==
    op.fn = "HwpxArchive.write" =>
        LET original == HwpxArchive_read(archive)
            reread == HwpxArchive_read(out.entries)
        IN  /\ out.exists
            /\ Keys(original) = Keys(reread)
            /\ \A key \in Keys(original) : Get(original, key) = Get(reread, key)

\* the copy of an archive that has two entries of one name and an entry
\* without bytes
C24_Witness ==
    /\ op.fn = "HwpxArchive.write"
    /\ \E i \in 1..Len(archive), j \in 1..Len(archive) : i # j /\ archive[i].name = archive[j].name
    /\ \E i \in 1..Len(archive) : archive[i].data = Text(<<>>)
    /\ Len(out.entries) < Len(archive)

\* the package the caller holds is the one HWPXReader.read returns for the
\* archive (whatever attributes were attached to it since)
AsRead ==
    /\ hwpx.ok
    /\ [hwpx.p EXCEPT !.original_xml_strings = NoAttr, !.all_files = NoAttr,
                      !.modified_files = NoSetAttr] = Parsed

\* the last operation wrote the package as read with HwpxWriter, the
\* mimetype argument being the reader's MIMETYPE
WriterRoundTrip == op.fn = "HwpxWriter.write" /\ op.arg = "MIMETYPE" /\ AsRead

RereadOK ==
    /\ err = ""
    /\ out.exists
    /\ HWPXReader_read(out.entries).err = ""
    /\ Keys(HWPXReader_read(out.entries).p.content_files) = Keys(hwpx.p.content_files)

\* C25 as stated: for any archive HWPXReader.read accepts, HwpxWriter
\* writes the serialized trees of the package without raising and the
\* archive it wrote reads back with the same set of content part paths.
C25_WriterRoundTrip == WriterRoundTrip => RereadOK

\* the four structural parts were parsed and the container names
\* Contents/content.hpf as the descriptor
StructuralPartsPresent ==
    /\ hwpx.p.version_xml.tag # "None"
    /\ hwpx.p.container_xml.tag # "None"
    /\ hwpx.p.manifest_xml.tag # "None"
    /\ hwpx.p.content_hpf.tag # "None"
    /\ ParseContainer(hwpx.p.container_xml)[1] = N_HPF

\* the hrefs HwpxWriter.write takes as referenced are content parts
ReferencedProvided ==
    Referenced(ET_tostring_nodecl(hwpx.p.content_hpf, nsmap)) \subseteq Keys(hwpx.p.content_files)

\* C25 amended: for any archive HWPXReader.read accepts with its four
\* structural parts present, the container naming Contents/content.hpf,
\* and every item of the descriptor in the namespace
\* "http://www.idpf.org/2007/opf" having the path of a loaded content part,
\* HwpxWriter writes the serialized trees without raising and the archive
\* it wrote reads back with the same set of content part paths.
C25_WriterRoundTripWhenProvided ==
    (WriterRoundTrip /\ StructuralPartsPresent /\ ReferencedProvided) => RereadOK

\* a round trip of a document with two content parts the writer takes as
\* referenced
C25_Witness ==
    /\ WriterRoundTrip /\ StructuralPartsPresent /\ ReferencedProvided
    /\ Cardinality(Referenced(ET_tostring_nodecl(hwpx.p.content_hpf, nsmap))) = 2
    /\ Len(out.entries) = 7

(***************************************************************************)
(* The template producer.                                                  *)
(***************************************************************************)
\* the archive invariant: the mimetype entry exists, is first, is stored
\* and holds the fixed content-type string
ArchiveInvariant(entries) ==
    /\ Len(entries) >= 1
    /\ entries[1].name = N_MIME
    /\ entries[1].ctype = "stored"
    /\ entries[1].data = Text(MIMETYPE)

\* C26: the archive make_blank writes satisfies the archive invariant, and
\* HWPXReader.read accepts it and loads Contents/header.xml,
\* Contents/section0.xml and settings.xml as content parts.
C26_BlankIsValid ==
    op.fn = "make_blank" =>
        /\ out.exists
        /\ ArchiveInvariant(out.entries)
        /\ HWPXReader_read(out.entries).err = ""
        /\ {N_HEADER, N_SEC0, N_SETTINGS}
              \subseteq Keys(HWPXReader_read(out.entries).p.content_files)

(***************************************************************************)
(* HwpxWriter and the manifest of the descriptor.                          *)
(***************************************************************************)
\* the hrefs of the manifest items of the descriptor, as the reader finds
\* them, that are not among the files given to HwpxWriter
NotProvided ==
    {it.href : it \in Range(ParseContentManifest(hwpx.p.content_hpf))}
        \ Keys(hwpx.p.content_files)

\* C27: HwpxWriter.write raises KeyError whenever an item of the manifest
\* of the content descriptor has an href that is not among the files it
\* was given, whichever way the descriptor declares the opf namespace.
C27_MissingReferenceRaises ==
    (op.fn = "HwpxWriter.write" /\ hwpx.p.version_xml.tag # "None"
        /\ hwpx.p.container_xml.tag # "None" /\ hwpx.p.manifest_xml.tag # "None"
        /\ hwpx.p.content_hpf.tag # "None" /\ NotProvided # {})
    => err = "KeyError"

(***************************************************************************)
(* The three writers of a save.                                            *)
(***************************************************************************)
NoDuplicateNames(entries) ==
    \A i \in 1..Len(entries), j \in 1..Len(entries) :
        i # j => entries[i].name # entries[j].name

\* C28: no archive a save writes (through the compatible writer or through
\* the ZIP writer of writer.save_modified_hwpx or of
\* text_modifier._save_modified_hwpx) has two entries of the same name,
\* also when the content-part map of the package has the path of a
\* structural part.
C28_NoDuplicateEntries ==
    (op.fn \in SaveFns /\ out.exists) => NoDuplicateNames(out.entries)

\* the entries of an archive as a set of (name, bytes, compression)
EntrySet(entries) == Range(entries)

\* the results of the three writers for the package the caller holds and
\* an original_path
ByCompatible(orig) == save_modified_hwpx_compatible(hwpx.p, archive, orig, nsmap)

ByWriter(orig) == Writer_fallback(hwpx.p, archive, orig, nsmap)

ByTextModifier(orig) == TextModifier_fallback(hwpx.p, archive, orig, nsmap)

\* the package has what the three writers need
Complete ==
    /\ hwpx.ok
    /\ hwpx.p.original_xml_strings.has
    /\ hwpx.p.all_files.has
    /\ ~CoreRaises(hwpx.p)

\* C29: for the same package, modified-parts set and compression
\* reference, the compatible writer and the two ZIP writers write the same
\* set of entries: the same names, each with the bytes of the same source
\* (original text, serialized tree or original bytes) and the same
\* compression method.
C29_WritersAgree ==
    (op.fn \in SaveFns /\ Complete) =>
        \A orig \in {"source", "unreadable"} :
            /\ ByCompatible(orig).err = ByWriter(orig).err
            /\ ByWriter(orig).err = ByTextModifier(orig).err
            /\ EntrySet(ByCompatible(orig).out.entries) = EntrySet(ByWriter(orig).out.entries)
            /\ EntrySet(ByWriter(orig).out.entries) = EntrySet(ByTextModifier(orig).out.entries)

(***************************************************************************)
(* The frame of the bulk transform.                                        *)
(***************************************************************************)
\* an element without its body text and tail
Shape(elem) == [elem EXCEPT !.text = <<>>, !.tail = <<>>]

\* the elements of a part after the transform are those of before it, in
\* the same order, with the same tags and attributes, and an empty body
\* text or tail is still empty
SameShape(els, parsedEls) ==
    /\ Len(els) = Len(parsedEls)
    /\ \A i \in 1..Len(els) :
          /\ Shape(els[i]) = Shape(parsedEls[i])
          /\ parsedEls[i].text = <<>> => els[i].text = <<>>
          /\ parsedEls[i].tail = <<>> => els[i].tail = <<>>

\* C30: the transform loop of modify_hwpx_text changes nothing but the
\* body text and tail of elements of content parts: the parts, the number
\* and order of their elements, their tags and attributes, the four
\* structural trees, the binary map and the chart map are as the reader
\* returned them, and an empty or absent body text or tail stays empty
\* (the transform is not applied to it).
C30_TransformFrame ==
    (op.fn = "modify_hwpx_text" /\ hwpx.ok) =>
        /\ hwpx.p.version_xml = Parsed.version_xml
        /\ hwpx.p.container_xml = Parsed.container_xml
        /\ hwpx.p.manifest_xml = Parsed.manifest_xml
        /\ hwpx.p.content_hpf = Parsed.content_hpf
        /\ hwpx.p.binary_files = Parsed.binary_files
        /\ hwpx.p.charts = Parsed.charts
        /\ KeySeq(hwpx.p.content_files) = KeySeq(Parsed.content_files)
        /\ \A i \in 1..Len(Parsed.content_files) :
              LET tree == hwpx.p.content_files[i][2]
                  parsedTree == Parsed.content_files[i][2]
              IN  /\ [tree EXCEPT !.els = <<>>] = [parsedTree EXCEPT !.els = <<>>]
                  /\ SameShape(tree.els, parsedTree.els)

\* a transform that gives a non-empty string for the empty string, run on
\* a document with binary parts and charts whose body part has an element
\* without text and an element whose text it changed
C30_Witness ==
    /\ op.fn = "modify_hwpx_text" /\ op.arg = "mark" /\ hwpx.ok
    /\ hwpx.p.binary_files # <<>>
    /\ hwpx.p.charts # <<>>
    /\ \E i \in 1..Len(Parsed.content_files) :
          \E j \in 1..Len(Parsed.content_files[i][2].els),
             k \in 1..Len(Parsed.content_files[i][2].els) :
             /\ Parsed.content_files[i][2].els[j].text = <<>>
             /\ Parsed.content_files[i][2].els[k].text # <<>>
             /\ hwpx.p.content_files[i][2].els[k].text # Parsed.content_files[i][2].els[k].text

====
